---- MODULE Spec2Model ----
(***************************************************************************)
(* The BPF endpoint manager of dataplane/linux/bpf_ep_mgr.go: its caches,  *)
(* reverse indices and dirty sets, the OnUpdate mutators, and the          *)
(* CompleteDeferredWork reconciliation with its workers and the tc lock.   *)
(***************************************************************************)
EXTENDS Integers, Sequences, FiniteSets, TLC

VARIABLES
    wlEps,                \* map WorkloadEndpointID -> endpoint
    policies,             \* map PolicyID -> policy
    profiles,             \* map ProfileID -> profile
    ifaces,               \* map interface name -> epIface
    policiesToWorkloads,  \* map PolicyID -> set of WorkloadEndpointID
    profilesToWorkloads,  \* map ProfileID -> set of WorkloadEndpointID
    dirtyWorkloads,       \* set of WorkloadEndpointID
    dirtyIfaces,          \* set of interface names
    panicked,             \* the process died of a Go panic
    erasedEdges,          \* history: (policy, endpoint) edges dropped by onPolicyRemove
    failedLast,           \* history: whose worker failed in the last finished reconciliation
    coord,                \* where the caller of OnUpdate/CompleteDeferredWork is
    hostW,                \* the goroutine of each dirty data interface
    wlW,                  \* the goroutine of each dirty workload endpoint
    caa,                  \* the running calls of compileAndAttachProgram
    errsI,                \* errs of applyProgramsToDirtyDataInterfaces
    errsW,                \* errs of applyProgramsToDirtyWorkloadEndpoints
    tcLock,               \* holder of the process-wide tc mutex
    effects,              \* history: external actions of the current reconciliation
    inbox,                \* messages the caller has still to hand to OnUpdate
    call,                 \* a call of one of the package's functions: its arguments
    result                \* what that call returned

vars == <<wlEps, policies, profiles, ifaces, policiesToWorkloads,
          profilesToWorkloads, dirtyWorkloads, dirtyIfaces, panicked,
          erasedEdges, failedLast, coord, hostW, wlW, caa, errsI, errsW, tcLock, effects,
          inbox, call, result>>

cacheVars == <<wlEps, policies, profiles, ifaces, policiesToWorkloads,
               profilesToWorkloads, erasedEdges>>

\* What an OnUpdate mutator never touches.
callVars == <<failedLast, tcLock, call, result>>

\* The function call under study: no step of the manager touches it.
pureVars == <<call, result>>

workerVars == <<hostW, wlW, caa, errsI, errsW, tcLock, effects>>

-----------------------------------------------------------------------------
(* Values of the model.                                                    *)

StateUnknown == ""
StateDown == "down"
StateUp == "up"

PolDirnIngress == "ingress"
PolDirnEgress == "egress"
TCHookIngress == "ingress"
TCHookEgress == "egress"
FromEp == "from"
ToEp == "to"
EpTypeWorkload == "workload"
EpTypeHost == "host"
EpTypeTunnel == "tunnel"

CompileFlagHostEp == 1
CompileFlagIngress == 2
CompileFlagTunnel == 4
CompileFlagCgroup == 8

\* The number of workload endpoint ids the messages name.
MaxWorkloads == 2

WlNames == <<"w1", "w2", "w3">>
WlIds == {WlNames[k] : k \in 1..MaxWorkloads}
IfaceNames == {"eth0", "tunl0", "cali1"}

\* The names dataIfaceRegex matches (the configured data-interface pattern).
DataIfaces == {"eth0", "tunl0"}

PolID(tier, name) == [Tier |-> tier, Name |-> name]
ProfID(name) == [Name |-> name]

PolicyIDs == {PolID("t1", "pA"), PolID("t1", "pB"), PolID("t2", "pA")}
ProfileIDs == {ProfID("prA")}

Tier(name, ing, eg) ==
    [Name |-> name, IngressPolicies |-> ing, EgressPolicies |-> eg]
Endpoint(name, tiers, profs) ==
    [Name |-> name, Tiers |-> tiers, ProfileIds |-> profs]
Rules(inb, outb) == [InboundRules |-> inb, OutboundRules |-> outb]

\* Endpoints the index specification sends: no tier at all, a tier with every
\* list empty, duplicate names in one tier, two tiers, a profile named twice.
EpValues == {
    Endpoint("cali1", <<>>, <<"prA">>),
    Endpoint("cali1", <<Tier("t1", <<"pA">>, <<>>)>>, <<"prA">>),
    Endpoint("cali1", <<Tier("t1", <<>>, <<"pB">>),
                        Tier("t2", <<"pA", "pA">>, <<"pA">>)>>, <<>>),
    Endpoint("cali1", <<Tier("t1", <<>>, <<>>)>>, <<"prA", "prA">>) }

\* Endpoints the reconciliation specification sends.
EpValuesRec == {
    Endpoint("cali1", <<>>, <<>>),
    Endpoint("eth0", <<>>, <<>>) }

PolicyValues == {Rules(<<"R1">>, <<"R2">>)}
ProfileValues == {Rules(<<"R1">>, <<>>)}

-----------------------------------------------------------------------------
(* Go maps and sets.                                                       *)

EmptyMap == [x \in {} |-> {}]

\* m[k] = v
MapPut(m, k, v) == [x \in DOMAIN m \cup {k} |-> IF x = k THEN v ELSE m[x]]

\* delete(m, k)
MapDel(m, k) == [x \in DOMAIN m \ {k} |-> m[x]]

\* The set an index holds for key k; a missing entry is a nil set.
IdxGet(idx, k) == IF k \in DOMAIN idx THEN idx[k] ELSE {}

RECURSIVE SeqToSet(_)
SeqToSet(s) == IF s = <<>> THEN {} ELSE {Head(s)} \cup SeqToSet(Tail(s))

\* The PolicyIDs the loops over t.IngressPolicies and t.EgressPolicies visit.
TierPolKeys(t) ==
    {PolID(t.Name, p) : p \in SeqToSet(t.IngressPolicies)}
        \cup {PolID(t.Name, p) : p \in SeqToSet(t.EgressPolicies)}

RECURSIVE PolKeys(_)
PolKeys(tiers) ==
    IF tiers = <<>> THEN {}
    ELSE TierPolKeys(Head(tiers)) \cup PolKeys(Tail(tiers))

\* The ProfileIDs the loop over ProfileIds visits.
ProfKeys(profs) == {ProfID(n) : n \in SeqToSet(profs)}

\* polSet := idx[key]; if polSet == nil { continue }; polSet.Discard(wlID)
DiscardAll(idx, keys, wlID) ==
    [k \in DOMAIN idx |-> IF k \in keys THEN idx[k] \ {wlID} ELSE idx[k]]

\* if idx[key] == nil { idx[key] = set.New() }; idx[key].Add(wlID)
AddAll(idx, keys, wlID) ==
    [k \in DOMAIN idx \cup keys |->
        IF k \in keys THEN IdxGet(idx, k) \cup {wlID} ELSE idx[k]]

-----------------------------------------------------------------------------
(* The OnUpdate mutators.                                                  *)

\* OnUpdate runs on the caller's task, between two reconciliations.
CallerFree == coord \in {"idle", "returned"} /\ ~panicked

\* The locals of the last CompleteDeferredWork are gone once the caller moves on.
ForgetWorkers ==
    /\ hostW' = EmptyMap
    /\ wlW' = EmptyMap
    /\ caa' = EmptyMap
    /\ errsI' = EmptyMap
    /\ errsW' = EmptyMap
    /\ effects' = {}
    /\ UNCHANGED callVars

\* The update that leaves the old version's policy edges in the index.
DetachPolicies_Skip(idx, wl, wlID) == idx

\* The first half of onWorkloadEndpointUpdate, over oldWL.Tiers.
DetachPolicies(idx, wl, wlID) == DiscardAll(idx, PolKeys(wl.Tiers), wlID)

\* The first half of onWorkloadEndpointUpdate, over oldWL.ProfileIds.
DetachProfiles(idx, wl, wlID) == DiscardAll(idx, ProfKeys(wl.ProfileIds), wlID)

\* The second half of onWorkloadEndpointUpdate, over wl.Tiers.
AttachPolicies(idx, wl, wlID) == AddAll(idx, PolKeys(wl.Tiers), wlID)

\* The loop over wl.ProfileIds is nested in the loop over wl.Tiers: it runs
\* once per tier, and not at all for an endpoint without tiers.
AttachProfiles(idx, wl, wlID) ==
    IF wl.Tiers = <<>> THEN idx
    ELSE AddAll(idx, ProfKeys(wl.ProfileIds), wlID)

\* The endpoints whose cached version names polID in some tier.
PolicyUsers(polID) ==
    {w \in DOMAIN wlEps : polID \in PolKeys(wlEps[w].Tiers)}

\* The endpoints whose cached version names profID.
ProfileUsers(profID) ==
    {w \in DOMAIN wlEps : profID \in ProfKeys(wlEps[w].ProfileIds)}

\* The endpoint cache and the two reverse indices.
Caches ==
    [wlEps |-> wlEps, policiesToWorkloads |-> policiesToWorkloads,
     profilesToWorkloads |-> profilesToWorkloads]

\* What onWorkloadEndpointUpdate makes of the three maps c.
EndpointUpdated(c, wlID, wl) ==
    LET hasOld == wlID \in DOMAIN c.wlEps
        pol1 == IF hasOld
                THEN DetachPolicies(c.policiesToWorkloads, c.wlEps[wlID], wlID)
                ELSE c.policiesToWorkloads
        prof1 == IF hasOld
                 THEN DetachProfiles(c.profilesToWorkloads, c.wlEps[wlID], wlID)
                 ELSE c.profilesToWorkloads
    IN [wlEps |-> MapPut(c.wlEps, wlID, wl),
        policiesToWorkloads |-> AttachPolicies(pol1, wl, wlID),
        profilesToWorkloads |-> AttachProfiles(prof1, wl, wlID)]

onWorkloadEndpointUpdate(wlID, wl) ==
    /\ CallerFree
    /\ LET c == EndpointUpdated(Caches, wlID, wl)
       IN /\ wlEps' = c.wlEps
          /\ policiesToWorkloads' = c.policiesToWorkloads
          /\ profilesToWorkloads' = c.profilesToWorkloads
    /\ dirtyWorkloads' = dirtyWorkloads \cup {wlID}
    /\ erasedEdges' = {e \in erasedEdges : e[2] # wlID}
    /\ coord' = "idle"
    /\ ForgetWorkers
    /\ UNCHANGED <<policies, profiles, ifaces, dirtyIfaces, panicked>>

\* The remove that deletes the index entries of the endpoint's policies.
EndpointRemoved_ErasesEntries(c, wlID) ==
    [wlEps |-> MapDel(c.wlEps, wlID),
     policiesToWorkloads |->
         [k \in DOMAIN c.policiesToWorkloads \ PolKeys(c.wlEps[wlID].Tiers) |->
             c.policiesToWorkloads[k]],
     profilesToWorkloads |-> c.profilesToWorkloads]

\* What onWorkloadEnpdointRemove makes of the three maps c when the endpoint
\* is cached: the profile index is left alone.
EndpointRemoved(c, wlID) ==
    [wlEps |-> MapDel(c.wlEps, wlID),
     policiesToWorkloads |->
         DetachPolicies(c.policiesToWorkloads, c.wlEps[wlID], wlID),
     profilesToWorkloads |-> c.profilesToWorkloads]

\* The remove that takes the endpoint out of the dirty set.
onWorkloadEnpdointRemove_Undirties(wlID) ==
    /\ CallerFree
    /\ IF wlID \notin DOMAIN wlEps
       THEN /\ panicked' = TRUE
            /\ UNCHANGED <<wlEps, policiesToWorkloads, dirtyWorkloads, erasedEdges>>
       ELSE /\ LET c == EndpointRemoved(Caches, wlID)
               IN /\ wlEps' = c.wlEps
                  /\ policiesToWorkloads' = c.policiesToWorkloads
            /\ dirtyWorkloads' = dirtyWorkloads \ {wlID}
            /\ erasedEdges' = {e \in erasedEdges : e[2] # wlID}
            /\ UNCHANGED panicked
    /\ coord' = "idle"
    /\ ForgetWorkers
    /\ UNCHANGED <<policies, profiles, ifaces, profilesToWorkloads, dirtyIfaces>>

\* wl := m.wlEps[wlID] is nil for an id that is not cached, and wl.Tiers then
\* dereferences the nil pointer: the process dies.
onWorkloadEnpdointRemove(wlID) ==
    /\ CallerFree
    /\ IF wlID \notin DOMAIN wlEps
       THEN /\ panicked' = TRUE
            /\ UNCHANGED <<wlEps, policiesToWorkloads, dirtyWorkloads, erasedEdges>>
       ELSE /\ LET c == EndpointRemoved(Caches, wlID)
               IN /\ wlEps' = c.wlEps
                  /\ policiesToWorkloads' = c.policiesToWorkloads
            /\ dirtyWorkloads' = dirtyWorkloads \cup {wlID}
            /\ erasedEdges' = {e \in erasedEdges : e[2] # wlID}
            /\ UNCHANGED panicked
    /\ coord' = "idle"
    /\ ForgetWorkers
    /\ UNCHANGED <<policies, profiles, ifaces, profilesToWorkloads, dirtyIfaces>>

\* The marking that marks nothing.
markPolicyUsersDirty_None(id) == dirtyWorkloads

markPolicyUsersDirty(id) == dirtyWorkloads \cup IdxGet(policiesToWorkloads, id)

markProfileUsersDirty(id) == dirtyWorkloads \cup IdxGet(profilesToWorkloads, id)

onPolicyUpdate(polID, pol) ==
    /\ CallerFree
    /\ policies' = MapPut(policies, polID, pol)
    /\ dirtyWorkloads' = markPolicyUsersDirty(polID)
    /\ coord' = "idle"
    /\ ForgetWorkers
    /\ UNCHANGED <<wlEps, profiles, ifaces, policiesToWorkloads,
                   profilesToWorkloads, dirtyIfaces, panicked, erasedEdges>>

onPolicyRemove(polID) ==
    /\ CallerFree
    /\ dirtyWorkloads' = markPolicyUsersDirty(polID)
    /\ policies' = MapDel(policies, polID)
    /\ policiesToWorkloads' = MapDel(policiesToWorkloads, polID)
    /\ erasedEdges' = erasedEdges \cup {<<polID, w>> : w \in PolicyUsers(polID)}
    /\ coord' = "idle"
    /\ ForgetWorkers
    /\ UNCHANGED <<wlEps, profiles, ifaces, profilesToWorkloads, dirtyIfaces,
                   panicked>>

onProfileUpdate(profID, prof) ==
    /\ CallerFree
    /\ profiles' = MapPut(profiles, profID, prof)
    /\ dirtyWorkloads' = markProfileUsersDirty(profID)
    /\ coord' = "idle"
    /\ ForgetWorkers
    /\ UNCHANGED <<wlEps, policies, ifaces, policiesToWorkloads,
                   profilesToWorkloads, dirtyIfaces, panicked, erasedEdges>>

onProfileRemove(profID) ==
    /\ CallerFree
    /\ dirtyWorkloads' = markProfileUsersDirty(profID)
    /\ profiles' = MapDel(profiles, profID)
    /\ profilesToWorkloads' = MapDel(profilesToWorkloads, profID)
    /\ coord' = "idle"
    /\ ForgetWorkers
    /\ UNCHANGED <<wlEps, policies, ifaces, policiesToWorkloads, dirtyIfaces,
                   panicked, erasedEdges>>

\* iface := m.ifaces[name] is the zero epIface for a name that is not cached.
IfaceGet(name) ==
    IF name \in DOMAIN ifaces THEN ifaces[name]
    ELSE [State |-> StateUnknown, addrs |-> <<>>]

\* The interface update that ensures the qdisc at once.
onInterfaceUpdate_EnsuresQdisc(name, state) ==
    /\ CallerFree
    /\ ifaces' = IF state = StateUnknown
                 THEN MapDel(ifaces, name)
                 ELSE MapPut(ifaces, name,
                             [IfaceGet(name) EXCEPT !.State = state])
    /\ dirtyIfaces' = dirtyIfaces \cup {name}
    /\ coord' = "idle"
    /\ hostW' = EmptyMap /\ wlW' = EmptyMap /\ caa' = EmptyMap
    /\ errsI' = EmptyMap /\ errsW' = EmptyMap
    /\ effects' = {[by |-> name, op |-> "qdisc", iface |-> name, hook |-> "",
                    section |-> "", flags |-> 0, out |-> "ok", rules |-> <<>>]}
    /\ UNCHANGED callVars
    /\ UNCHANGED <<wlEps, policies, profiles, policiesToWorkloads,
                   profilesToWorkloads, dirtyWorkloads, panicked, erasedEdges>>

\* The interface update that stores a fresh entry, without the addresses.
onInterfaceUpdate_FreshEntry(name, state) ==
    /\ CallerFree
    /\ ifaces' = IF state = StateUnknown
                 THEN MapDel(ifaces, name)
                 ELSE MapPut(ifaces, name, [State |-> state, addrs |-> <<>>])
    /\ dirtyIfaces' = dirtyIfaces \cup {name}
    /\ coord' = "idle"
    /\ ForgetWorkers
    /\ UNCHANGED <<wlEps, policies, profiles, policiesToWorkloads,
                   profilesToWorkloads, dirtyWorkloads, panicked, erasedEdges>>

onInterfaceUpdate(name, state) ==
    /\ CallerFree
    /\ ifaces' = IF state = StateUnknown
                 THEN MapDel(ifaces, name)
                 ELSE MapPut(ifaces, name,
                             [IfaceGet(name) EXCEPT !.State = state])
    /\ dirtyIfaces' = dirtyIfaces \cup {name}
    /\ coord' = "idle"
    /\ ForgetWorkers
    /\ UNCHANGED <<wlEps, policies, profiles, policiesToWorkloads,
                   profilesToWorkloads, dirtyWorkloads, panicked, erasedEdges>>

\* The Addrs of an ifaceAddrsUpdate: a nil set.Set, or a set of strings.
NilAddrs == [isNil |-> TRUE, strs |-> {}]
AddrSet(strs) == [isNil |-> FALSE, strs |-> strs]

\* A nil net.IP.
NilIP == ""

\* The strings the updates of the model carry: two IPv4 addresses, the
\* IPv4-mapped IPv6 form of the first, an IPv6 address, and text that is no
\* address.
AddrStrings == {"10.0.0.1", "10.0.0.2", "::ffff:10.0.0.1", "fe80::1", "bogus"}

\* net.ParseIP: the 16-byte form of the address, which for an IPv4 address
\* is the IPv4-mapped IPv6 address; nil for text that is no address.
ParseIP(str) ==
    CASE str = "10.0.0.1" -> "::ffff:10.0.0.1"
      [] str = "10.0.0.2" -> "::ffff:10.0.0.2"
      [] str = "::ffff:10.0.0.1" -> "::ffff:10.0.0.1"
      [] str = "fe80::1" -> "fe80::1"
      [] OTHER -> NilIP

\* net.IP.To4: the 4-byte form of an IPv4-mapped address, else nil.
To4(ip) ==
    CASE ip = "::ffff:10.0.0.1" -> "10.0.0.1"
      [] ip = "::ffff:10.0.0.2" -> "10.0.0.2"
      [] OTHER -> NilIP

\* The orders in which Iter may visit the members of a set.
IterOrders(strs) ==
    {o \in [1..Cardinality(strs) -> strs] :
        \A i, j \in 1..Cardinality(strs) : o[i] = o[j] => i = j}

\* The callback of update.Addrs.Iter over one order: the strings that parse
\* and have a 4-byte form are appended as such, the others are passed over.
RECURSIVE AppendIPv4(_, _)
AppendIPv4(addrs, order) ==
    IF order = <<>> THEN addrs
    ELSE IF To4(ParseIP(Head(order))) = NilIP
         THEN AppendIPv4(addrs, Tail(order))
         ELSE AppendIPv4(Append(addrs, To4(ParseIP(Head(order)))), Tail(order))

\* The addresses update that keeps the list it finds and appends to it.
onInterfaceAddrsUpdate_Appends(name, addrSet) ==
    /\ CallerFree
    /\ IF addrSet.isNil
       THEN UNCHANGED <<ifaces, dirtyIfaces>>
       ELSE /\ \E order \in IterOrders(addrSet.strs) :
                  ifaces' = MapPut(ifaces, name,
                      [IfaceGet(name) EXCEPT
                          !.addrs = AppendIPv4(IfaceGet(name).addrs, order)])
            /\ dirtyIfaces' = dirtyIfaces \cup {name}
    /\ coord' = "idle"
    /\ ForgetWorkers
    /\ UNCHANGED <<wlEps, policies, profiles, policiesToWorkloads,
                   profilesToWorkloads, dirtyWorkloads, panicked, erasedEdges>>

onInterfaceAddrsUpdate(name, addrSet) ==
    /\ CallerFree
    /\ IF addrSet.isNil
       THEN UNCHANGED <<ifaces, dirtyIfaces>>
       ELSE /\ \E order \in IterOrders(addrSet.strs) :
                  ifaces' = MapPut(ifaces, name,
                      [IfaceGet(name) EXCEPT !.addrs = AppendIPv4(<<>>, order)])
            /\ dirtyIfaces' = dirtyIfaces \cup {name}
    /\ coord' = "idle"
    /\ ForgetWorkers
    /\ UNCHANGED <<wlEps, policies, profiles, policiesToWorkloads,
                   profilesToWorkloads, dirtyWorkloads, panicked, erasedEdges>>

-----------------------------------------------------------------------------
(* OnUpdate and its messages.                                              *)

NoEndpoint == Endpoint("", <<>>, <<>>)
NoRules == Rules(<<>>, <<>>)

Msg(type, name, tier, state, endpoint, rules) ==
    [type |-> type, name |-> name, tier |-> tier, state |-> state,
     endpoint |-> endpoint, rules |-> rules, addrs |-> NilAddrs]

ifaceUpdate(name, state) == Msg("ifaceUpdate", name, "", state, NoEndpoint, NoRules)
ifaceAddrsUpdate(name, addrSet) ==
    [Msg("ifaceAddrsUpdate", name, "", "", NoEndpoint, NoRules) EXCEPT !.addrs = addrSet]
WorkloadEndpointUpdate(id, endpoint) ==
    Msg("WorkloadEndpointUpdate", id, "", "", endpoint, NoRules)
WorkloadEndpointRemove(id) ==
    Msg("WorkloadEndpointRemove", id, "", "", NoEndpoint, NoRules)
ActivePolicyUpdate(tier, name, policy) ==
    Msg("ActivePolicyUpdate", name, tier, "", NoEndpoint, policy)
ActivePolicyRemove(tier, name) ==
    Msg("ActivePolicyRemove", name, tier, "", NoEndpoint, NoRules)
ActiveProfileUpdate(name, profile) ==
    Msg("ActiveProfileUpdate", name, "", "", NoEndpoint, profile)
ActiveProfileRemove(name) ==
    Msg("ActiveProfileRemove", name, "", "", NoEndpoint, NoRules)

OnUpdate(msg) ==
    \/ msg.type = "ifaceUpdate" /\ onInterfaceUpdate(msg.name, msg.state)
    \/ msg.type = "ifaceAddrsUpdate" /\ onInterfaceAddrsUpdate(msg.name, msg.addrs)
    \/ msg.type = "WorkloadEndpointUpdate"
          /\ onWorkloadEndpointUpdate(msg.name, msg.endpoint)
    \/ msg.type = "WorkloadEndpointRemove" /\ onWorkloadEnpdointRemove(msg.name)
    \/ msg.type = "ActivePolicyUpdate"
          /\ onPolicyUpdate(PolID(msg.tier, msg.name), msg.rules)
    \/ msg.type = "ActivePolicyRemove" /\ onPolicyRemove(PolID(msg.tier, msg.name))
    \/ msg.type = "ActiveProfileUpdate"
          /\ onProfileUpdate(ProfID(msg.name), msg.rules)
    \/ msg.type = "ActiveProfileRemove" /\ onProfileRemove(ProfID(msg.name))

\* The caller hands the next message to OnUpdate.
Deliver ==
    /\ inbox # <<>>
    /\ OnUpdate(Head(inbox))
    /\ inbox' = Tail(inbox)

-----------------------------------------------------------------------------
(* Attach points and rule extraction.                                      *)

BPFSectionName(endpointType, fromOrTo) ==
    "calico_" \o fromOrTo \o "_" \o endpointType \o "_ep"

\* The table with the two host entries exchanged.
bpfSectionToFlags_HostSwapped ==
    (BPFSectionName(EpTypeWorkload, FromEp) :> 0)
    @@ (BPFSectionName(EpTypeWorkload, ToEp) :> CompileFlagIngress)
    @@ (BPFSectionName(EpTypeHost, FromEp) :> CompileFlagHostEp)
    @@ (BPFSectionName(EpTypeHost, ToEp) :> CompileFlagHostEp + CompileFlagIngress)
    @@ (BPFSectionName(EpTypeTunnel, FromEp) :>
            CompileFlagHostEp + CompileFlagIngress + CompileFlagTunnel)
    @@ (BPFSectionName(EpTypeTunnel, ToEp) :> CompileFlagHostEp + CompileFlagTunnel)

\* The table with the two workload entries exchanged.
bpfSectionToFlags_WorkloadSwapped ==
    (BPFSectionName(EpTypeWorkload, FromEp) :> CompileFlagIngress)
    @@ (BPFSectionName(EpTypeWorkload, ToEp) :> 0)
    @@ (BPFSectionName(EpTypeHost, FromEp) :> CompileFlagHostEp + CompileFlagIngress)
    @@ (BPFSectionName(EpTypeHost, ToEp) :> CompileFlagHostEp)
    @@ (BPFSectionName(EpTypeTunnel, FromEp) :>
            CompileFlagHostEp + CompileFlagIngress + CompileFlagTunnel)
    @@ (BPFSectionName(EpTypeTunnel, ToEp) :> CompileFlagHostEp + CompileFlagTunnel)

\* The table init() fills. The flags are distinct bits, so | is +.
bpfSectionToFlags ==
    (BPFSectionName(EpTypeWorkload, FromEp) :> 0)
    @@ (BPFSectionName(EpTypeWorkload, ToEp) :> CompileFlagIngress)
    @@ (BPFSectionName(EpTypeHost, FromEp) :> CompileFlagHostEp + CompileFlagIngress)
    @@ (BPFSectionName(EpTypeHost, ToEp) :> CompileFlagHostEp)
    @@ (BPFSectionName(EpTypeTunnel, FromEp) :>
            CompileFlagHostEp + CompileFlagIngress + CompileFlagTunnel)
    @@ (BPFSectionName(EpTypeTunnel, ToEp) :> CompileFlagHostEp + CompileFlagTunnel)

BPFSectionToFlags(section) == bpfSectionToFlags[section]

\* The attach point without the flip of the workload direction.
calculateTCAttachPoint_NoFlip(endpointType, policyDirection, ifaceName) ==
    LET hook == IF policyDirection = PolDirnIngress
                THEN TCHookIngress ELSE TCHookEgress
        toOrFrom == IF hook = TCHookIngress THEN FromEp ELSE ToEp
        section == BPFSectionName(endpointType, toOrFrom)
    IN [Section |-> section, Hook |-> hook, Iface |-> ifaceName,
        CompileFlags |-> BPFSectionToFlags(section)]

calculateTCAttachPoint(endpointType, policyDirection, ifaceName) ==
    LET hook == IF endpointType = EpTypeWorkload
                THEN (IF policyDirection = PolDirnIngress
                      THEN TCHookEgress ELSE TCHookIngress)
                ELSE (IF policyDirection = PolDirnIngress
                      THEN TCHookIngress ELSE TCHookEgress)
        toOrFrom == IF hook = TCHookIngress THEN FromEp ELSE ToEp
        section == BPFSectionName(endpointType, toOrFrom)
    IN [Section |-> section, Hook |-> hook, Iface |-> ifaceName,
        CompileFlags |-> BPFSectionToFlags(section)]

\* tier.IngressPolicies, or tier.EgressPolicies for the egress direction.
DirectionalPols(tier, direction) ==
    IF direction = PolDirnEgress THEN tier.EgressPolicies
    ELSE tier.IngressPolicies

\* pol.InboundRules, or pol.OutboundRules for the egress direction.
DirectionalRules(pol, direction) ==
    IF direction = PolDirnIngress THEN pol.InboundRules ELSE pol.OutboundRules

\* pol := m.policies[id] is a nil pointer for an id that is not cached, and
\* pol.InboundRules then dereferences it; likewise for the profiles.
ExtractPanics(tiers2, profileNames, direction) ==
    \/ \E i \in 1..Len(tiers2) :
          \E p \in SeqToSet(DirectionalPols(tiers2[i], direction)) :
              PolID(tiers2[i].Name, p) \notin DOMAIN policies
    \/ \E n \in SeqToSet(profileNames) : ProfID(n) \notin DOMAIN profiles

\* The pols of one tier.
TierRules(tier, direction) ==
    [k \in 1..Len(DirectionalPols(tier, direction)) |->
        DirectionalRules(
            policies[PolID(tier.Name, DirectionalPols(tier, direction)[k])],
            direction)]

RECURSIVE TiersRules(_, _)
TiersRules(tiers2, direction) ==
    IF tiers2 = <<>> THEN <<>>
    ELSE IF Len(DirectionalPols(Head(tiers2), direction)) = 0
         THEN TiersRules(Tail(tiers2), direction)
         ELSE <<TierRules(Head(tiers2), direction)>>
                  \o TiersRules(Tail(tiers2), direction)

\* The extraction that appends the profiles tier only if there are profiles.
extractRules_ProfilesOnlyIfAny(tiers2, profileNames, direction) ==
    IF profileNames = <<>> THEN TiersRules(tiers2, direction)
    ELSE Append(TiersRules(tiers2, direction),
                [k \in 1..Len(profileNames) |->
                    DirectionalRules(profiles[ProfID(profileNames[k])], direction)])

extractRules(tiers2, profileNames, direction) ==
    Append(TiersRules(tiers2, direction),
           [k \in 1..Len(profileNames) |->
               DirectionalRules(profiles[ProfID(profileNames[k])], direction)])

\* compileAndAttachDataIfaceProgram's rules: [[[{Action: "Allow"}]]]
DataIfaceRules == <<<< <<"Allow">> >>>>

-----------------------------------------------------------------------------
(* Calls of the functions above, as a caller or a unit test makes them.    *)

NoAttachPoint == [Section |-> "", Hook |-> "", Iface |-> "", CompileFlags |-> 0]

Call(fn, endpointType, direction, ifaceName, fromOrTo, section, tiers2, profs) ==
    [fn |-> fn, endpointType |-> endpointType, policyDirection |-> direction,
     ifaceName |-> ifaceName, fromOrTo |-> fromOrTo, section |-> section,
     tiers2 |-> tiers2, profileNames |-> profs]

NoCall == Call("none", "", "", "", "", "", <<>>, <<>>)

NoResult ==
    [done |-> FALSE, panic |-> FALSE, ap |-> NoAttachPoint, name |-> "",
     flags |-> 0, rules |-> <<>>]

EndpointTypes == {EpTypeWorkload, EpTypeHost, EpTypeTunnel}
PolDirections == {PolDirnIngress, PolDirnEgress}

\* The arguments of the calls of calculateTCAttachPoint.
AttachPointCalls ==
    {Call("calculateTCAttachPoint", t, d, i, "", "", <<>>, <<>>) :
        t \in EndpointTypes, d \in PolDirections, i \in IfaceNames}

\* The arguments of the calls of BPFSectionName.
SectionNameCalls ==
    {Call("BPFSectionName", t, "", "", ft, "", <<>>, <<>>) :
        t \in EndpointTypes, ft \in {FromEp, ToEp}}

\* The arguments of the calls of BPFSectionToFlags: the six sections of the
\* table and one that is not in it.
SectionFlagsCalls ==
    {Call("BPFSectionToFlags", "", "", "", "", sec, <<>>, <<>>) :
        sec \in {BPFSectionName(t, ft) : t \in EndpointTypes, ft \in {FromEp, ToEp}}
                    \cup {"calico_from_cgroup_ep"}}

\* Tier lists: none; one ingress policy; two tiers, a name twice; one tier
\* with both lists empty; two such tiers; an empty tier between two others;
\* two names in either order.
TiersValues == {
    <<>>,
    <<Tier("t1", <<"pA">>, <<>>)>>,
    <<Tier("t1", <<>>, <<"pB">>), Tier("t2", <<"pA", "pA">>, <<"pA">>)>>,
    <<Tier("t1", <<>>, <<>>)>>,
    <<Tier("t1", <<>>, <<>>), Tier("t2", <<>>, <<>>)>>,
    <<Tier("t1", <<"pA", "pB">>, <<"pB", "pA">>)>> }

ProfileNamesValues == {<<>>, <<"prA">>, <<"prB", "prA">>, <<"prA", "prA">>}

\* The arguments of the calls of extractRules.
ExtractRulesCalls ==
    {Call("extractRules", "", d, "", "", "", ts, ps) :
        ts \in TiersValues, ps \in ProfileNamesValues, d \in PolDirections}

\* The policy caches extractRules is called with: each of three ids absent
\* or cached with one of two rule lists.
PolicyCaches ==
    LET vals == {Rules(<<"R1">>, <<"R2">>), Rules(<<"R3", "R1">>, <<>>)}
    IN UNION {[ids -> vals] : ids \in SUBSET PolicyIDs}

\* The profile caches: each of two ids absent or cached.
ProfileCaches ==
    LET ids2 == {ProfID("prA"), ProfID("prB")}
    IN UNION {[ids -> {Rules(<<"R4">>, <<"R5", "R6">>)}] : ids \in SUBSET ids2}

\* Nothing of the manager changes while a function is called.
PureFrame ==
    UNCHANGED <<cacheVars, inbox, dirtyWorkloads, dirtyIfaces, panicked, coord,
                workerVars, failedLast, call>>

CallCalculateTCAttachPoint ==
    /\ call.fn = "calculateTCAttachPoint" /\ ~result.done
    /\ result' = [NoResult EXCEPT
          !.done = TRUE,
          !.ap = calculateTCAttachPoint(call.endpointType, call.policyDirection,
                                        call.ifaceName)]
    /\ PureFrame

CallBPFSectionName ==
    /\ call.fn = "BPFSectionName" /\ ~result.done
    /\ result' = [NoResult EXCEPT
          !.done = TRUE,
          !.name = BPFSectionName(call.endpointType, call.fromOrTo)]
    /\ PureFrame

\* flags, ok := bpfSectionToFlags[section]; if !ok { ... Panic(...) }
CallBPFSectionToFlags ==
    /\ call.fn = "BPFSectionToFlags" /\ ~result.done
    /\ result' = IF call.section \in DOMAIN bpfSectionToFlags
                 THEN [NoResult EXCEPT !.done = TRUE,
                                       !.flags = BPFSectionToFlags(call.section)]
                 ELSE [NoResult EXCEPT !.done = TRUE, !.panic = TRUE]
    /\ PureFrame

CallExtractRules ==
    /\ call.fn = "extractRules" /\ ~result.done
    /\ result' = IF ExtractPanics(call.tiers2, call.profileNames,
                                  call.policyDirection)
                 THEN [NoResult EXCEPT !.done = TRUE, !.panic = TRUE]
                 ELSE [NoResult EXCEPT
                          !.done = TRUE,
                          !.rules = extractRules(call.tiers2, call.profileNames,
                                                 call.policyDirection)]
    /\ PureFrame

-----------------------------------------------------------------------------
(* CompleteDeferredWork.                                                   *)

NilErr == "nil"

\* errs[k], nil for a key no worker wrote.
ErrGet(errs, k) == IF k \in DOMAIN errs THEN errs[k] ELSE NilErr

\* One call of compileAndAttachProgram: by the goroutine of data interface key
\* (kind "host") or by a goroutine of applyPolicy for endpoint key (kind "wl").
CaaId(kind, key, dirn) == [kind |-> kind, key |-> key, dirn |-> dirn]

NewCall == [pc |-> "compile", tcOut |-> "none", err |-> NilErr]

CallAP(c) ==
    IF c.kind = "host"
    THEN calculateTCAttachPoint(
             IF c.key = "tunl0" THEN EpTypeTunnel ELSE EpTypeHost, c.dirn, c.key)
    ELSE calculateTCAttachPoint(EpTypeWorkload, c.dirn, wlEps[c.key].Name)

CallPanics(c) ==
    /\ c.kind = "wl"
    /\ ExtractPanics(wlEps[c.key].Tiers, wlEps[c.key].ProfileIds, c.dirn)

CallRules(c) ==
    IF c.kind = "host" THEN DataIfaceRules
    ELSE extractRules(wlEps[c.key].Tiers, wlEps[c.key].ProfileIds, c.dirn)

\* An external action, as the history records it.
Effect(by, op, ap, out, rules) ==
    [by |-> by, op |-> op, iface |-> ap.Iface, hook |-> ap.Hook,
     section |-> ap.Section, flags |-> ap.CompileFlags, out |-> out,
     rules |-> rules]

IfaceEffect(by, op, iface, out) ==
    [by |-> by, op |-> op, iface |-> iface, hook |-> "", section |-> "",
     flags |-> 0, out |-> out, rules |-> <<>>]

\* A read of one of the manager's maps by a goroutine, as the history records it.
CacheRead(by, cache) == IfaceEffect(by, "read", "", cache)

\* The maps a call of compileAndAttachProgram and the extractRules before it
\* read: m.policies and m.profiles for the names of the endpoint, and
\* m.ifaces[attachPoint.Iface] for the host IP.
CallReads(c) ==
    {CacheRead(c.key, "ifaces")}
        \cup (IF c.kind = "wl"
                 /\ \E k \in 1..Len(wlEps[c.key].Tiers) :
                       DirectionalPols(wlEps[c.key].Tiers[k], c.dirn) # <<>>
              THEN {CacheRead(c.key, "policies")} ELSE {})
        \cup (IF c.kind = "wl" /\ wlEps[c.key].ProfileIds # <<>>
              THEN {CacheRead(c.key, "profiles")} ELSE {})

\* The first Iter without the test of the interface state.
SkippedIfaces_NoStateTest == {i \in dirtyIfaces : i \notin DataIfaces}

\* The first Iter of applyProgramsToDirtyDataInterfaces: the interfaces it
\* drops from the dirty set without a worker.
SkippedIfaces ==
    {i \in dirtyIfaces : i \notin DataIfaces \/ IfaceGet(i).State # StateUp}

\* The debug line of a dropped interface: "doesn't match the host data
\* interface regex", or "is down".
IgnoredWhy(i) == IF i \notin DataIfaces THEN "regex" ELSE "down"

\* The second Iter that removes nothing.
StillDirty_KeepAll(dirty, errs) == dirty

\* The second Iter that removes every item.
StillDirty_DropAll(dirty, errs) == {}

\* The second Iter of either phase: what stays dirty.
StillDirty(dirty, errs) == {x \in dirty : ErrGet(errs, x) # NilErr}

CompleteDeferredWork ==
    /\ CallerFree
    /\ coord' = "phaseA"
    /\ dirtyIfaces' = dirtyIfaces \ SkippedIfaces
    /\ hostW' = [i \in dirtyIfaces \ SkippedIfaces |-> "qdisc"]
    /\ wlW' = EmptyMap
    /\ caa' = EmptyMap
    /\ errsI' = EmptyMap
    /\ errsW' = EmptyMap
    /\ effects' = {IfaceEffect(i, "ignored", i, IgnoredWhy(i)) : i \in SkippedIfaces}
    /\ UNCHANGED <<cacheVars, pureVars, inbox, failedLast, dirtyWorkloads, panicked, tcLock>>

\* EnsureQdisc starts: tc qdisc del, then tc qdisc add.
HostBeginQdisc(i) ==
    /\ coord = "phaseA" /\ ~panicked
    /\ i \in DOMAIN hostW /\ hostW[i] = "qdisc"
    /\ hostW' = [hostW EXCEPT ![i] = "qdiscRun"]
    /\ effects' = effects \cup {IfaceEffect(i, "qdisc", i, "ok")}
    /\ UNCHANGED <<cacheVars, pureVars, inbox, failedLast, dirtyWorkloads, dirtyIfaces, panicked, coord,
                   wlW, caa, errsI, errsW, tcLock>>

\* EnsureQdisc is over; compileAndAttachDataIfaceProgram(iface, PolDirnIngress).
HostEndQdisc(i) ==
    /\ coord = "phaseA" /\ ~panicked
    /\ i \in DOMAIN hostW /\ hostW[i] = "qdiscRun"
    /\ hostW' = [hostW EXCEPT ![i] = PolDirnIngress]
    /\ caa' = MapPut(caa, CaaId("host", i, PolDirnIngress), NewCall)
    /\ UNCHANGED <<cacheVars, pureVars, inbox, failedLast, dirtyWorkloads, dirtyIfaces, panicked, coord,
                   wlW, errsI, errsW, tcLock, effects>>

\* The ingress call returned: the egress call if err == nil.
HostAfterIngress(i) ==
    /\ coord = "phaseA" /\ ~panicked
    /\ i \in DOMAIN hostW /\ hostW[i] = PolDirnIngress
    /\ LET c == caa[CaaId("host", i, PolDirnIngress)]
       IN /\ c.pc = "ret"
          /\ IF c.err = NilErr
             THEN /\ hostW' = [hostW EXCEPT ![i] = PolDirnEgress]
                  /\ caa' = MapPut(caa, CaaId("host", i, PolDirnEgress), NewCall)
                  /\ UNCHANGED errsI
             ELSE /\ hostW' = [hostW EXCEPT ![i] = "done"]
                  /\ errsI' = MapPut(errsI, i, c.err)
                  /\ UNCHANGED caa
    /\ UNCHANGED <<cacheVars, pureVars, inbox, failedLast, dirtyWorkloads, dirtyIfaces, panicked, coord,
                   wlW, errsW, tcLock, effects>>

\* The egress call returned: setAcceptLocal if err == nil.
HostAfterEgress(i) ==
    /\ coord = "phaseA" /\ ~panicked
    /\ i \in DOMAIN hostW /\ hostW[i] = PolDirnEgress
    /\ LET c == caa[CaaId("host", i, PolDirnEgress)]
       IN /\ c.pc = "ret"
          /\ IF c.err = NilErr
             THEN /\ hostW' = [hostW EXCEPT ![i] = "acceptLocal"]
                  /\ UNCHANGED errsI
             ELSE /\ hostW' = [hostW EXCEPT ![i] = "done"]
                  /\ errsI' = MapPut(errsI, i, c.err)
    /\ UNCHANGED <<cacheVars, pureVars, inbox, failedLast, dirtyWorkloads, dirtyIfaces, panicked, coord,
                   wlW, caa, errsW, tcLock, effects>>

\* setAcceptLocal(iface, true) writes "1" or fails; errs[iface] = err.
HostAcceptLocal(i) ==
    /\ coord = "phaseA" /\ ~panicked
    /\ i \in DOMAIN hostW /\ hostW[i] = "acceptLocal"
    /\ \E out \in {"ok", "fail"} :
          /\ effects' = effects \cup {IfaceEffect(i, "acceptLocal", i, out)}
          /\ errsI' = MapPut(errsI, i, IF out = "ok" THEN NilErr ELSE "procErr")
    /\ hostW' = [hostW EXCEPT ![i] = "done"]
    /\ UNCHANGED <<cacheVars, pureVars, inbox, failedLast, dirtyWorkloads, dirtyIfaces, panicked, coord,
                   wlW, caa, errsW, tcLock>>

\* The first phase that does not wait for its goroutines.
EndDataInterfaces_NoWait ==
    /\ coord = "phaseA" /\ ~panicked
    /\ dirtyIfaces' = StillDirty(dirtyIfaces, errsI)
    /\ wlW' = [w \in dirtyWorkloads |-> "applyPolicy"]
    /\ coord' = "phaseB"
    /\ UNCHANGED <<cacheVars, pureVars, inbox, failedLast, dirtyWorkloads, panicked, hostW, caa, errsI,
                   errsW, tcLock, effects>>

\* wg.Wait() of the first phase returns; its second Iter; then the first Iter
\* of applyProgramsToDirtyWorkloadEndpoints.
EndDataInterfaces ==
    /\ coord = "phaseA" /\ ~panicked
    /\ \A i \in DOMAIN hostW : hostW[i] = "done"
    /\ dirtyIfaces' = StillDirty(dirtyIfaces, errsI)
    /\ wlW' = [w \in dirtyWorkloads |-> "applyPolicy"]
    /\ coord' = "phaseB"
    /\ UNCHANGED <<cacheVars, pureVars, inbox, failedLast, dirtyWorkloads, panicked, hostW, caa, errsI,
                   errsW, tcLock, effects>>

\* The worker that takes its endpoint out of the dirty set itself.
WlApplyPolicy_DropsDirty(w) ==
    /\ coord = "phaseB" /\ ~panicked
    /\ w \in DOMAIN wlW /\ wlW[w] = "applyPolicy"
    /\ dirtyWorkloads' = dirtyWorkloads \ {w}
    /\ IF w \notin DOMAIN wlEps
       THEN /\ wlW' = [wlW EXCEPT ![w] = "done"]
            /\ errsW' = MapPut(errsW, w, NilErr)
            /\ effects' = effects \cup {CacheRead(w, "wlEps")}
       ELSE /\ wlW' = [wlW EXCEPT ![w] = "qdiscRun"]
            /\ effects' = effects \cup {CacheRead(w, "wlEps"),
                                        IfaceEffect(w, "qdisc", wlEps[w].Name, "ok")}
            /\ UNCHANGED errsW
    /\ UNCHANGED <<cacheVars, pureVars, inbox, failedLast, dirtyIfaces, panicked, coord,
                   hostW, caa, errsI, tcLock>>

\* applyPolicy: wep := m.wlEps[wlID]; nil for an endpoint that is not cached,
\* else EnsureQdisc starts.
WlApplyPolicy(w) ==
    /\ coord = "phaseB" /\ ~panicked
    /\ w \in DOMAIN wlW /\ wlW[w] = "applyPolicy"
    /\ IF w \notin DOMAIN wlEps
       THEN /\ wlW' = [wlW EXCEPT ![w] = "done"]
            /\ errsW' = MapPut(errsW, w, NilErr)
            /\ effects' = effects \cup {CacheRead(w, "wlEps")}
       ELSE /\ wlW' = [wlW EXCEPT ![w] = "qdiscRun"]
            /\ effects' = effects \cup {CacheRead(w, "wlEps"),
                                        IfaceEffect(w, "qdisc", wlEps[w].Name, "ok")}
            /\ UNCHANGED errsW
    /\ UNCHANGED <<cacheVars, pureVars, inbox, failedLast, dirtyWorkloads, dirtyIfaces, panicked, coord,
                   hostW, caa, errsI, tcLock>>

\* EnsureQdisc is over; the ingress and the egress goroutine start.
WlEndQdisc(w) ==
    /\ coord = "phaseB" /\ ~panicked
    /\ w \in DOMAIN wlW /\ wlW[w] = "qdiscRun"
    /\ wlW' = [wlW EXCEPT ![w] = "wait"]
    /\ caa' = MapPut(MapPut(caa, CaaId("wl", w, PolDirnIngress), NewCall),
                     CaaId("wl", w, PolDirnEgress), NewCall)
    /\ UNCHANGED <<cacheVars, pureVars, inbox, failedLast, dirtyWorkloads, dirtyIfaces, panicked, coord,
                   hostW, errsI, errsW, tcLock, effects>>

\* applyPolicy that looks at the egress error first.
applyPolicyResult_EgressFirst(ingressErr, egressErr) ==
    IF egressErr # NilErr THEN egressErr
    ELSE IF ingressErr # NilErr THEN ingressErr
    ELSE NilErr

\* What applyPolicy returns after wg.Wait().
applyPolicyResult(ingressErr, egressErr) ==
    IF ingressErr # NilErr THEN ingressErr
    ELSE IF egressErr # NilErr THEN egressErr
    ELSE NilErr

\* wg.Wait() of applyPolicy returns; errs[wlID] = err.
WlJoin(w) ==
    /\ coord = "phaseB" /\ ~panicked
    /\ w \in DOMAIN wlW /\ wlW[w] = "wait"
    /\ LET ci == caa[CaaId("wl", w, PolDirnIngress)]
           ce == caa[CaaId("wl", w, PolDirnEgress)]
       IN /\ ci.pc = "ret" /\ ce.pc = "ret"
          /\ errsW' = MapPut(errsW, w, applyPolicyResult(ci.err, ce.err))
    /\ wlW' = [wlW EXCEPT ![w] = "done"]
    /\ UNCHANGED <<cacheVars, pureVars, inbox, failedLast, dirtyWorkloads, dirtyIfaces, panicked, coord,
                   hostW, caa, errsI, tcLock, effects>>

\* wg.Wait() of the second phase returns; its second Iter; return nil.
EndWorkloadEndpoints ==
    /\ coord = "phaseB" /\ ~panicked
    /\ \A w \in DOMAIN wlW : wlW[w] = "done"
    /\ dirtyWorkloads' = StillDirty(dirtyWorkloads, errsW)
    /\ failedLast' = {i \in DOMAIN errsI : errsI[i] # NilErr}
                          \cup {w \in DOMAIN errsW : errsW[w] # NilErr}
    /\ coord' = "returned"
    /\ UNCHANGED <<cacheVars, pureVars, inbox, dirtyIfaces, panicked, workerVars>>

-----------------------------------------------------------------------------
(* compileAndAttachProgram and AttachTCProgram, one step per blocking call.  *)

Running(c) == coord \in {"phaseA", "phaseB"} /\ ~panicked /\ c \in DOMAIN caa

\* AttachTCProgram without the "Cannot find device" case.
AttachTCProgramResult_NoDowngrade(tcOut) ==
    IF tcOut = "ok" THEN NilErr ELSE "tcErr"

\* What AttachTCProgram returns: nil when tc succeeded or its output holds
\* "Cannot find device", else the error of tc.
AttachTCProgramResult(tcOut) == IF tcOut = "fail" THEN "tcErr" ELSE NilErr

\* What compileAndAttachProgram returns after a failed attach: pg, err := in
\* the if block declares a new err, which WriteProgram leaves nil, and return
\* err returns that one.
AttachFailureResult(attachErr) == NilErr

\* The error of CompileTCProgramToFile: each failed call has its own.
CompileErr(c) == "compileErr:" \o c.dirn

\* extractRules, calculateTCAttachPoint and CompileTCProgramToFile.
CaaCompile(c) ==
    /\ Running(c) /\ caa[c].pc = "compile"
    /\ IF CallPanics(c)
       THEN /\ panicked' = TRUE
            /\ UNCHANGED <<caa, effects>>
       ELSE /\ \E out \in {"ok", "fail"} :
                  /\ effects' = effects \cup CallReads(c) \cup
                        {Effect(c.key, "compile", CallAP(c), out, CallRules(c))}
                  /\ caa' = [caa EXCEPT ![c] =
                        IF out = "ok" THEN [@ EXCEPT !.pc = "lock"]
                        ELSE [@ EXCEPT !.pc = "ret", !.err = CompileErr(c)]]
            /\ UNCHANGED panicked
    /\ UNCHANGED <<cacheVars, pureVars, inbox, failedLast, dirtyWorkloads, dirtyIfaces, coord, hostW, wlW,
                   errsI, errsW, tcLock>>

\* AttachTCProgram that runs tc without waiting for the lock.
CaaLock_NoWait(c) ==
    /\ Running(c) /\ caa[c].pc = "lock"
    /\ tcLock' = {c}
    /\ caa' = [caa EXCEPT ![c].pc = "tc"]
    /\ UNCHANGED <<cacheVars, pureVars, inbox, failedLast, dirtyWorkloads, dirtyIfaces,
                   panicked, coord, hostW, wlW, errsI, errsW, effects>>

\* tcLock.Lock(); tc filter add starts.
CaaLock(c) ==
    /\ Running(c) /\ caa[c].pc = "lock"
    /\ tcLock = {}
    /\ tcLock' = {c}
    /\ caa' = [caa EXCEPT ![c].pc = "tc"]
    /\ UNCHANGED <<cacheVars, pureVars, inbox, failedLast, dirtyWorkloads, dirtyIfaces, panicked, coord,
                   hostW, wlW, errsI, errsW, effects>>

\* AttachTCProgram that unlocks as soon as tc filter add has ended.
CaaTc_UnlocksBeforeSweep(c) ==
    /\ Running(c) /\ caa[c].pc = "tc"
    /\ \E out \in {"ok", "notfound", "fail"} :
          /\ effects' = effects \cup
                {Effect(c.key, "attach", CallAP(c), out, CallRules(c))}
          /\ caa' = [caa EXCEPT ![c] = [@ EXCEPT !.pc = "sweep", !.tcOut = out]]
    /\ tcLock' = tcLock \ {c}
    /\ UNCHANGED <<cacheVars, pureVars, inbox, failedLast, dirtyWorkloads, dirtyIfaces, panicked, coord,
                   hostW, wlW, errsI, errsW>>

\* tc filter add ends: it worked, or the device is gone, or it failed.
CaaTc(c) ==
    /\ Running(c) /\ caa[c].pc = "tc"
    /\ \E out \in {"ok", "notfound", "fail"} :
          /\ effects' = effects \cup
                {Effect(c.key, "attach", CallAP(c), out, CallRules(c))}
          /\ caa' = [caa EXCEPT ![c] = [@ EXCEPT !.pc = "sweep", !.tcOut = out]]
    /\ UNCHANGED <<cacheVars, pureVars, inbox, failedLast, dirtyWorkloads, dirtyIfaces, panicked, coord,
                   hostW, wlW, errsI, errsW, tcLock>>

\* The deferred walk of /sys/fs/bpf/tc: every cali_jump pin is re-pinned and
\* its old pin removed, or bpftool or os.Remove fails and the walk panics.
CaaSweep(c) ==
    /\ Running(c) /\ caa[c].pc = "sweep"
    /\ \E out \in {"ok", "panic"} :
          /\ effects' = effects \cup {Effect(c.key, "sweep", CallAP(c), out, <<>>)}
          /\ panicked' = (out = "panic")
    /\ caa' = [caa EXCEPT ![c].pc = "unlock"]
    /\ UNCHANGED <<cacheVars, pureVars, inbox, failedLast, dirtyWorkloads, dirtyIfaces, coord, hostW, wlW,
                   errsI, errsW, tcLock>>

\* The deferred tcLock.Unlock(); AttachTCProgram returns.
CaaUnlock(c) ==
    /\ Running(c) /\ caa[c].pc = "unlock"
    /\ tcLock' = tcLock \ {c}
    /\ LET err == AttachTCProgramResult(caa[c].tcOut)
       IN caa' = [caa EXCEPT ![c] =
              [@ EXCEPT !.pc = IF err = NilErr THEN "ret" ELSE "dump",
                        !.err = err]]
    /\ UNCHANGED <<cacheVars, pureVars, inbox, failedLast, dirtyWorkloads, dirtyIfaces, panicked, coord,
                   hostW, wlW, errsI, errsW, effects>>

\* The attach failed: the program is generated again and logged; return err.
CaaDump(c) ==
    /\ Running(c) /\ caa[c].pc = "dump"
    /\ caa' = [caa EXCEPT ![c] =
          [@ EXCEPT !.pc = "ret", !.err = AttachFailureResult(caa[c].err)]]
    /\ UNCHANGED <<cacheVars, pureVars, inbox, failedLast, dirtyWorkloads, dirtyIfaces, panicked, coord,
                   hostW, wlW, errsI, errsW, tcLock, effects>>

CaaIds ==
    {CaaId("host", i, d) : i \in IfaceNames, d \in {PolDirnIngress, PolDirnEgress}}
        \cup {CaaId("wl", w, d) : w \in WlIds, d \in {PolDirnIngress, PolDirnEgress}}

Workers ==
    \/ \E i \in IfaceNames : HostBeginQdisc(i)
    \/ \E i \in IfaceNames : HostEndQdisc(i)
    \/ \E i \in IfaceNames : HostAfterIngress(i)
    \/ \E i \in IfaceNames : HostAfterEgress(i)
    \/ \E i \in IfaceNames : HostAcceptLocal(i)
    \/ \E w \in WlIds : WlApplyPolicy(w)
    \/ \E w \in WlIds : WlEndQdisc(w)
    \/ \E w \in WlIds : WlJoin(w)
    \/ \E c \in CaaIds : CaaCompile(c)
    \/ \E c \in CaaIds : CaaLock(c)
    \/ \E c \in CaaIds : CaaTc(c)
    \/ \E c \in CaaIds : CaaSweep(c)
    \/ \E c \in CaaIds : CaaUnlock(c)
    \/ \E c \in CaaIds : CaaDump(c)

-----------------------------------------------------------------------------
\* newBPFEndpointManager.
InitManager ==
    /\ wlEps = EmptyMap
    /\ policies = EmptyMap
    /\ profiles = EmptyMap
    /\ ifaces = EmptyMap
    /\ policiesToWorkloads = EmptyMap
    /\ profilesToWorkloads = EmptyMap
    /\ dirtyWorkloads = {}
    /\ dirtyIfaces = {}
    /\ panicked = FALSE
    /\ erasedEdges = {}
    /\ failedLast = {}
    /\ coord = "idle"
    /\ hostW = EmptyMap
    /\ wlW = EmptyMap
    /\ caa = EmptyMap
    /\ errsI = EmptyMap
    /\ errsW = EmptyMap
    /\ tcLock = {}
    /\ effects = {}
    /\ call = NoCall
    /\ result = NoResult

Init == InitManager /\ inbox = <<>>

\* The datamodel messages alone: endpoints, policies and profiles.
NextIndex ==
    \/ \E wlID \in WlIds, wl \in EpValues :
          onWorkloadEndpointUpdate(wlID, wl) /\ UNCHANGED inbox
    \/ \E wlID \in WlIds : onWorkloadEnpdointRemove(wlID) /\ UNCHANGED inbox
    \/ \E pol \in PolicyValues :
          onPolicyUpdate(PolID("t1", "pA"), pol) /\ UNCHANGED inbox
    \/ \E polID \in PolicyIDs : onPolicyRemove(polID) /\ UNCHANGED inbox
    \/ \E prof \in ProfileValues :
          onProfileUpdate(ProfID("prA"), prof) /\ UNCHANGED inbox
    \/ \E profID \in ProfileIDs : onProfileRemove(profID) /\ UNCHANGED inbox

SpecIndex == Init /\ [][NextIndex]_vars

\* Interface state and endpoint messages, and the reconciliation.
NextReconcile ==
    \/ \E name \in {"eth0", "cali1"}, state \in {StateUnknown, StateDown, StateUp} :
          onInterfaceUpdate(name, state) /\ UNCHANGED inbox
    \/ \E wl \in EpValuesRec : onWorkloadEndpointUpdate("w1", wl) /\ UNCHANGED inbox
    \/ onWorkloadEnpdointRemove("w1") /\ UNCHANGED inbox
    \/ CompleteDeferredWork
    \/ EndDataInterfaces
    \/ EndWorkloadEndpoints
    \/ Workers

SpecReconcile == Init /\ [][NextReconcile]_vars

\* The message sequences of the worker specification: two data interfaces
\* up; two endpoints on one interface; an endpoint on a data interface.
Scripts == <<
    <<ifaceUpdate("eth0", StateUp), ifaceUpdate("tunl0", StateUp)>>,
    <<ActivePolicyUpdate("t1", "pA", Rules(<<"R1">>, <<"R2">>)),
      WorkloadEndpointUpdate("w1",
          Endpoint("cali1", <<Tier("t1", <<"pA">>, <<>>)>>, <<>>)),
      WorkloadEndpointUpdate("w2", Endpoint("cali1", <<>>, <<>>))>>,
    <<ifaceUpdate("eth0", StateUp),
      WorkloadEndpointUpdate("w1", Endpoint("eth0", <<>>, <<>>))>> >>

InitWorkers == InitManager /\ \E k \in DOMAIN Scripts : inbox = Scripts[k]

\* One reconciliation after a sequence of messages, in every interleaving of
\* its workers.
NextWorkers ==
    \/ Deliver
    \/ inbox = <<>> /\ coord = "idle" /\ CompleteDeferredWork
    \/ EndDataInterfaces
    \/ EndWorkloadEndpoints
    \/ Workers

SpecWorkers == InitWorkers /\ [][NextWorkers]_vars

\* A fresh manager, or one whose policy and profile caches were filled, and a
\* call of one function with its arguments.
InitPure ==
    /\ wlEps = EmptyMap
    /\ ifaces = EmptyMap
    /\ policiesToWorkloads = EmptyMap
    /\ profilesToWorkloads = EmptyMap
    /\ dirtyWorkloads = {}
    /\ dirtyIfaces = {}
    /\ panicked = FALSE
    /\ erasedEdges = {}
    /\ failedLast = {}
    /\ coord = "idle"
    /\ hostW = EmptyMap
    /\ wlW = EmptyMap
    /\ caa = EmptyMap
    /\ errsI = EmptyMap
    /\ errsW = EmptyMap
    /\ tcLock = {}
    /\ effects = {}
    /\ inbox = <<>>
    /\ result = NoResult
    /\ \/ /\ call \in AttachPointCalls \cup SectionNameCalls \cup SectionFlagsCalls
          /\ policies = EmptyMap
          /\ profiles = EmptyMap
       \/ /\ call \in ExtractRulesCalls
          /\ policies \in PolicyCaches
          /\ profiles \in ProfileCaches

NextPure ==
    \/ CallCalculateTCAttachPoint
    \/ CallBPFSectionName
    \/ CallBPFSectionToFlags
    \/ CallExtractRules

SpecPure == InitPure /\ [][NextPure]_vars

\* The rule lists a policy is created and updated with.
PolicyVersions == {Rules(<<"R1">>, <<>>), Rules(<<"R1", "R2">>, <<>>)}

\* One endpoint that names policy pA of tier t1 and profile prA, the messages
\* that create, update and remove the two, a data interface, and the
\* reconciliation.
NextPolicy ==
    \/ onWorkloadEndpointUpdate("w1",
           Endpoint("cali1", <<Tier("t1", <<"pA">>, <<>>)>>, <<"prA">>))
          /\ UNCHANGED inbox
    \/ \E pol \in PolicyVersions :
          onPolicyUpdate(PolID("t1", "pA"), pol) /\ UNCHANGED inbox
    \/ onPolicyRemove(PolID("t1", "pA")) /\ UNCHANGED inbox
    \/ \E prof \in ProfileValues :
          onProfileUpdate(ProfID("prA"), prof) /\ UNCHANGED inbox
    \/ onProfileRemove(ProfID("prA")) /\ UNCHANGED inbox
    \/ onInterfaceUpdate("eth0", StateUp) /\ UNCHANGED inbox
    \/ CompleteDeferredWork
    \/ EndDataInterfaces
    \/ EndWorkloadEndpoints
    \/ Workers

SpecPolicy == Init /\ [][NextPolicy]_vars

\* The address sets the updates carry: none, the empty set, one address, two
\* addresses, no IPv4 address at all, a mixed set, one address in two forms.
AddrsValues == {
    NilAddrs,
    AddrSet({}),
    AddrSet({"10.0.0.1"}),
    AddrSet({"10.0.0.1", "10.0.0.2"}),
    AddrSet({"fe80::1", "bogus"}),
    AddrSet({"10.0.0.2", "fe80::1"}),
    AddrSet({"10.0.0.1", "::ffff:10.0.0.1"}) }

\* The interface messages.
IfaceMsgs ==
    {ifaceUpdate(name, state) :
        name \in {"eth0", "cali1"}, state \in {StateUnknown, StateDown, StateUp}}
      \cup {ifaceAddrsUpdate(name, addrSet) :
                name \in {"eth0", "cali1"}, addrSet \in AddrsValues}

MaxIfaceMsgs == 3

\* A fresh manager and the interface messages it is going to get.
InitIfaces == InitManager /\ inbox \in [1..MaxIfaceMsgs -> IfaceMsgs]

NextIfaces == Deliver

SpecIfaces == InitIfaces /\ [][NextIfaces]_vars

\* One message of every type OnUpdate knows, for one interface, one endpoint,
\* the policy and the profile it names.
AllMsgs == {
    ifaceUpdate("eth0", StateUp),
    ifaceUpdate("eth0", StateUnknown),
    ifaceAddrsUpdate("eth0", NilAddrs),
    ifaceAddrsUpdate("eth0", AddrSet({"10.0.0.1"})),
    WorkloadEndpointUpdate("w1",
        Endpoint("cali1", <<Tier("t1", <<"pA">>, <<>>)>>, <<"prA">>)),
    WorkloadEndpointRemove("w1"),
    ActivePolicyUpdate("t1", "pA", Rules(<<"R1">>, <<"R2">>)),
    ActivePolicyRemove("t1", "pA"),
    ActiveProfileUpdate("prA", Rules(<<"R1">>, <<>>)),
    ActiveProfileRemove("prA") }

\* Messages of every type between reconciliations.
NextMessages ==
    \/ \E msg \in AllMsgs : OnUpdate(msg) /\ UNCHANGED inbox
    \/ CompleteDeferredWork
    \/ EndDataInterfaces
    \/ EndWorkloadEndpoints
    \/ Workers

SpecMessages == Init /\ [][NextMessages]_vars

\* The message sequences of the termination specification: those of the
\* worker specification, and a data interface with an endpoint whose policy
\* was never sent.
ScriptsLive ==
    Scripts \o <<
        <<ifaceUpdate("eth0", StateUp),
          WorkloadEndpointUpdate("w1",
              Endpoint("cali1", <<Tier("t1", <<"pA">>, <<>>)>>, <<>>))>> >>

InitLive == InitManager /\ \E k \in DOMAIN ScriptsLive : inbox = ScriptsLive[k]

\* One reconciliation after the messages, with no message after them. The Go
\* scheduler runs a goroutine that can run, and the steps of a reconciliation
\* never repeat a state, so weak fairness of the next-state action is all the
\* scheduling that is assumed: none is assumed of the order of the workers or
\* of who gets the tc lock.
SpecLive == InitLive /\ [][NextWorkers]_vars /\ WF_vars(NextWorkers)

\* Every message and every step of the reconciliation.
Next ==
    \/ \E name \in IfaceNames, state \in {StateUnknown, StateDown, StateUp} :
          onInterfaceUpdate(name, state) /\ UNCHANGED inbox
    \/ \E name \in IfaceNames, addrSet \in AddrsValues :
          onInterfaceAddrsUpdate(name, addrSet) /\ UNCHANGED inbox
    \/ \E wlID \in WlIds, wl \in EpValues \cup EpValuesRec :
          onWorkloadEndpointUpdate(wlID, wl) /\ UNCHANGED inbox
    \/ \E wlID \in WlIds : onWorkloadEnpdointRemove(wlID) /\ UNCHANGED inbox
    \/ \E polID \in PolicyIDs, pol \in PolicyValues :
          onPolicyUpdate(polID, pol) /\ UNCHANGED inbox
    \/ \E polID \in PolicyIDs : onPolicyRemove(polID) /\ UNCHANGED inbox
    \/ \E profID \in ProfileIDs, prof \in ProfileValues :
          onProfileUpdate(profID, prof) /\ UNCHANGED inbox
    \/ \E profID \in ProfileIDs : onProfileRemove(profID) /\ UNCHANGED inbox
    \/ CompleteDeferredWork
    \/ EndDataInterfaces
    \/ EndWorkloadEndpoints
    \/ Workers

Spec == Init /\ [][Next]_vars

-----------------------------------------------------------------------------
(* The claims.                                                             *)

C2_ProfileIndexExact ==
    \A q \in ProfileIDs : IdxGet(profilesToWorkloads, q) = ProfileUsers(q)

\* C3: no reverse-index set holds an endpoint id whose cached version does not
\* name the key; a removed endpoint is in no set of either index.
C3_NoStaleIndexMember ==
    /\ \A p \in PolicyIDs : IdxGet(policiesToWorkloads, p) \subseteq PolicyUsers(p)
    /\ \A q \in ProfileIDs : IdxGet(profilesToWorkloads, q) \subseteq ProfileUsers(q)

\* The calls of AttachTCProgram between tcLock.Lock() and tcLock.Unlock().
InAttach == {c \in DOMAIN caa : caa[c].pc \in {"tc", "sweep", "unlock"}}

\* C4: in every interleaving of the workers at most one call of
\* AttachTCProgram is between taking and releasing the tc lock.
C4_OneAttachAtATime ==
    /\ Cardinality(InAttach) <= 1
    /\ InAttach = tcLock

\* One call runs tc filter add while two others wait for the lock.
C4_Witness ==
    /\ \E c \in DOMAIN caa : caa[c].pc = "tc"
    /\ Cardinality({c \in DOMAIN caa : caa[c].pc = "lock"}) >= 2

Dirty == dirtyIfaces \cup dirtyWorkloads

\* C5: a tc attach that fails for another reason than a missing interface
\* makes compileAndAttachProgram return an error, and the interface or
\* endpoint is still dirty when CompleteDeferredWork returns.
C5_AttachFailureKeepsDirty ==
    /\ \A c \in DOMAIN caa :
          (caa[c].pc = "ret" /\ caa[c].tcOut = "fail") => caa[c].err # NilErr
    /\ coord = "returned" =>
          \A c \in DOMAIN caa : caa[c].tcOut = "fail" => c.key \in Dirty

\* C6: when CompleteDeferredWork returns, every interface and endpoint still
\* dirty had a worker in that call and the worker returned an error.
C6_DirtyOnlyIfWorkerFailed ==
    coord = "returned" =>
        /\ \A i \in dirtyIfaces :
              /\ i \in DOMAIN hostW /\ hostW[i] = "done"
              /\ i \in DOMAIN errsI /\ errsI[i] # NilErr
        /\ \A w \in dirtyWorkloads :
              /\ w \in DOMAIN wlW /\ wlW[w] = "done"
              /\ w \in DOMAIN errsW /\ errsW[w] # NilErr

\* The call returned: an interface whose worker failed is still dirty, and an
\* endpoint whose worker returned nil is clean.
C6_Witness ==
    /\ coord = "returned"
    /\ \E i \in dirtyIfaces : i \in DOMAIN errsI /\ errsI[i] # NilErr
    /\ \E w \in DOMAIN errsW : errsW[w] = NilErr /\ w \notin dirtyWorkloads

CanProgram(i) == i \in DataIfaces /\ IfaceGet(i).State = StateUp

C7_State ==
    /\ coord \in {"idle", "returned"} => failedLast \subseteq Dirty
    /\ coord \in {"phaseA", "phaseB"} =>
          \A i \in failedLast \cap IfaceNames : CanProgram(i) => i \in DOMAIN hostW
    /\ coord = "phaseA" => failedLast \cap WlIds \subseteq dirtyWorkloads
    /\ coord = "phaseB" => failedLast \cap WlIds \subseteq DOMAIN wlW

C7_NoRetry ==
    (coord \in {"phaseA", "phaseB"} /\ coord' \in {"phaseA", "phaseB", "returned"}) =>
        /\ \A i \in DOMAIN hostW : hostW[i] = "done" => hostW'[i] = "done"
        /\ \A w \in DOMAIN wlW : wlW[w] = "done" => wlW'[w] = "done"
        /\ \A c \in DOMAIN caa : caa[c].pc = "ret" => caa'[c] = caa[c]

\* C7: an interface or endpoint whose worker returned an error stays dirty
\* through the updates that follow and has a worker in the next
\* CompleteDeferredWork (an interface if it still matches and is up); within
\* a call a finished worker or a returned compile-and-attach never runs again.
C7_FailedRetriedNextCall == [][C7_State' /\ C7_NoRetry]_vars

\* The next call runs: the interface and the endpoint that failed in the last
\* one have their new workers.
C7_Witness ==
    /\ coord = "phaseB"
    /\ \E i \in failedLast \cap IfaceNames : i \in DOMAIN hostW
    /\ \E w \in failedLast \cap WlIds : w \in DOMAIN wlW

\* A failure of the worker of key other than a missing interface.
OtherFailure(key) ==
    \E e \in effects :
        /\ e.by = key
        /\ e.out = "fail"
        /\ e.op \in {"compile", "attach", "acceptLocal"}

\* C8: a tc failure whose output holds "Cannot find device" makes
\* AttachTCProgram return nil, without the dump of a failed attach, and if the
\* worker had no other failure the reconciliation removes its interface or
\* endpoint from the dirty set.
C8_MissingDeviceIsSuccess ==
    /\ \A c \in DOMAIN caa :
          (caa[c].tcOut = "notfound" /\ caa[c].pc \in {"dump", "ret"}) =>
              (caa[c].pc = "ret" /\ caa[c].err = NilErr)
    /\ coord = "returned" =>
          \A e \in effects :
              (e.op = "attach" /\ e.out = "notfound" /\ ~OtherFailure(e.by)) =>
                  e.by \notin Dirty

\* The call returned; tc did not find eth0, nothing else failed, and eth0 is
\* clean.
C8_Witness ==
    /\ coord = "returned"
    /\ \E e \in effects :
          /\ e.op = "attach" /\ e.out = "notfound" /\ e.by = "eth0"
          /\ ~OtherFailure(e.by)
          /\ e.by \notin Dirty

\* C9: no attach is issued against an interface whose cached state is not up,
\* in the data-interface phase or in the endpoint phase.
C9_NoAttachUnlessUp ==
    \A e \in effects : e.op = "attach" => IfaceGet(e.iface).State = StateUp

HostOps == {"qdisc", "compile", "attach", "sweep", "acceptLocal"}

C10_Start ==
    (coord \in {"idle", "returned"} /\ coord' = "phaseA") =>
        /\ DOMAIN hostW' = {i \in dirtyIfaces : CanProgram(i)}
        /\ dirtyIfaces' = DOMAIN hostW'
        /\ {e.iface : e \in {x \in effects' : x.op = "ignored"}} =
               dirtyIfaces \ DOMAIN hostW'

C10_During ==
    coord \in {"phaseA", "phaseB", "returned"} =>
        /\ \A e \in effects :
              (e.op \in HostOps /\ e.by \in IfaceNames) =>
                  (e.by \in DOMAIN hostW /\ CanProgram(e.by))
        /\ \A e \in effects :
              e.op = "ignored" =>
                  (e.iface \notin dirtyIfaces /\ e.iface \notin DOMAIN hostW)

\* C10: CompleteDeferredWork starts a host-program worker for a dirty
\* interface exactly if the name matches the data-interface pattern and the
\* cached state is up; every other dirty interface leaves dirtyIfaces in that
\* call, and no qdisc, compile, attach, sweep or accept_local is done for it.
C10_WorkerIffMatchAndUp == [][C10_Start /\ C10_During']_vars

\* One dirty interface has its worker at its attach, the other was dropped.
C10_Witness ==
    /\ coord = "phaseA"
    /\ \E i \in DOMAIN hostW : \E e \in effects : e.op = "attach" /\ e.by = i
    /\ \E e \in effects : e.op = "ignored"

\* C11: for every interface name and both policy directions,
\* calculateTCAttachPoint gives kind workload the hook opposite to the policy
\* direction, and kinds host and tunnel the hook of the policy direction.
C11_HookByKindAndDirection ==
    (call.fn = "calculateTCAttachPoint" /\ result.done) =>
        /\ ~result.panic
        /\ (call.endpointType = "workload" /\ call.policyDirection = "ingress")
              => result.ap.Hook = "egress"
        /\ (call.endpointType = "workload" /\ call.policyDirection = "egress")
              => result.ap.Hook = "ingress"
        /\ call.endpointType \in {"host", "tunnel"}
              => result.ap.Hook = call.policyDirection

\* The call for a workload's ingress policy returned the egress hook.
C11_Witness ==
    /\ call.fn = "calculateTCAttachPoint" /\ result.done
    /\ call.endpointType = "workload" /\ call.policyDirection = "ingress"
    /\ call.ifaceName = "cali1"
    /\ result.ap.Hook = "egress"

\* The table of section names and compile flags, as the specification prints it.
C12_Table ==
    (<<"workload", "from">> :> [name |-> "calico_from_workload_ep", flags |-> 0])
    @@ (<<"workload", "to">> :> [name |-> "calico_to_workload_ep", flags |-> 2])
    @@ (<<"host", "from">> :> [name |-> "calico_from_host_ep", flags |-> 3])
    @@ (<<"host", "to">> :> [name |-> "calico_to_host_ep", flags |-> 1])
    @@ (<<"tunnel", "from">> :> [name |-> "calico_from_tunnel_ep", flags |-> 7])
    @@ (<<"tunnel", "to">> :> [name |-> "calico_to_tunnel_ep", flags |-> 5])

\* Bit 8 of a flags value.
C12_CgroupBit(flags) == (flags \div 8) % 2

\* C12: for each of the six (kind, from/to) pairs the section name is
\* calico_<from|to>_<kind>_ep and the flags are workload/from 0, workload/to 2,
\* host/from 3, host/to 1, tunnel/from 7, tunnel/to 5, with HOSTEP = 1,
\* INGRESS = 2, TUNNEL = 4 and the CGROUP bit 8 never set; the attach point
\* carries the section and the flags of its kind and hook.
C12_SectionNamesAndFlags ==
    /\ CompileFlagHostEp = 1 /\ CompileFlagIngress = 2
    /\ CompileFlagTunnel = 4 /\ CompileFlagCgroup = 8
    /\ (call.fn = "BPFSectionName" /\ result.done) =>
          result.name = C12_Table[<<call.endpointType, call.fromOrTo>>].name
    /\ (call.fn = "BPFSectionToFlags" /\ result.done) =>
          \A k \in DOMAIN C12_Table :
              C12_Table[k].name = call.section =>
                  /\ ~result.panic
                  /\ result.flags = C12_Table[k].flags
                  /\ C12_CgroupBit(result.flags) = 0
    /\ (call.fn = "calculateTCAttachPoint" /\ result.done) =>
          LET k == <<call.endpointType,
                     IF result.ap.Hook = "ingress" THEN "from" ELSE "to">>
          IN /\ result.ap.Section = C12_Table[k].name
             /\ result.ap.CompileFlags = C12_Table[k].flags
             /\ C12_CgroupBit(result.ap.CompileFlags) = 0

\* The flags of the tunnel's from-section were looked up: 7.
C12_Witness ==
    /\ call.fn = "BPFSectionToFlags" /\ result.done
    /\ call.section = "calico_from_tunnel_ep"
    /\ result.flags = 7

\* The recorded actions of the worker of data interface i.
C13_Did(i, op, hook, outs) ==
    \E e \in effects : e.by = i /\ e.op = op /\ e.hook = hook /\ e.out \in outs

\* The compile+attach of one direction went through: the compile worked and
\* tc attached the program or found the interface gone.
C13_StepOk(i, hook) ==
    /\ C13_Did(i, "compile", hook, {"ok"})
    /\ C13_Did(i, "attach", hook, {"ok", "notfound"})
    /\ ~C13_Did(i, "attach", hook, {"fail"})

\* C13: the worker of a data interface ensures the qdisc, then compiles and
\* attaches the ingress program (hook ingress, calico_from_host_ep, flags 3),
\* then the egress program (hook egress, calico_to_host_ep, flags 1), then
\* writes accept_local; a step runs only after every earlier one went through:
\* no egress step after a failed ingress step, no accept_local write unless
\* both attaches succeeded.
C13_HostWorkerOrder ==
    \A i \in DOMAIN hostW :
        /\ (\E e \in effects : e.by = i /\ e.op \in {"compile", "attach", "acceptLocal"})
              => C13_Did(i, "qdisc", "", {"ok"})
        /\ \A e \in effects :
              (e.by = i /\ e.op \in {"compile", "attach"} /\ i # "tunl0") =>
                  \/ e.hook = "ingress" /\ e.section = "calico_from_host_ep"
                        /\ e.flags = 3
                  \/ e.hook = "egress" /\ e.section = "calico_to_host_ep"
                        /\ e.flags = 1
        /\ (\E e \in effects : e.by = i /\ e.op \in {"compile", "attach"}
                                  /\ e.hook = "egress")
              => C13_StepOk(i, "ingress")
        /\ (\E e \in effects : e.by = i /\ e.op = "acceptLocal")
              => C13_StepOk(i, "ingress") /\ C13_StepOk(i, "egress")

\* The d-directional policy names of a tier, and rule list of a policy or profile.
C14_Names(t, d) == IF d = "ingress" THEN t.IngressPolicies ELSE t.EgressPolicies
C14_RuleList(p, d) == IF d = "ingress" THEN p.InboundRules ELSE p.OutboundRules

\* Every policy and profile the arguments of the call name is cached.
C14_AllCached ==
    /\ \A k \in 1..Len(call.tiers2) :
          \A j \in 1..Len(C14_Names(call.tiers2[k], call.policyDirection)) :
              PolID(call.tiers2[k].Name,
                    C14_Names(call.tiers2[k], call.policyDirection)[j])
                  \in DOMAIN policies
    /\ \A j \in 1..Len(call.profileNames) :
          ProfID(call.profileNames[j]) \in DOMAIN profiles

\* The tree the specification describes for the arguments of the call.
C14_Tree ==
    LET d == call.policyDirection
        NonEmpty(t) == C14_Names(t, d) # <<>>
        kept == SelectSeq(call.tiers2, NonEmpty)
        PolTier(t) ==
            [j \in 1..Len(C14_Names(t, d)) |->
                C14_RuleList(policies[PolID(t.Name, C14_Names(t, d)[j])], d)]
        profTier ==
            [j \in 1..Len(call.profileNames) |->
                C14_RuleList(profiles[ProfID(call.profileNames[j])], d)]
    IN [k \in 1..Len(kept) |-> PolTier(kept[k])] \o <<profTier>>

\* C14: for any endpoint and direction d the extracted tree is, for each tier
\* in order whose d-list is non-empty, the list in name order and without
\* deduplication of the d-rule lists of the cached policies it names, followed
\* by exactly one profiles tier with one d-rule list per profile name in
\* order; tiers whose d-lists are all empty leave only the profiles tier, and
\* one tier with ingress policy [R1] and no profile gives [[[R1]], []].
C14_ExtractedTree ==
    (call.fn = "extractRules" /\ result.done /\ C14_AllCached) =>
        /\ ~result.panic
        /\ result.rules = C14_Tree
        /\ (\A k \in 1..Len(call.tiers2) :
                C14_Names(call.tiers2[k], call.policyDirection) = <<>>)
              => Len(result.rules) = 1
        /\ (/\ call.tiers2 = <<Tier("t1", <<"pA">>, <<>>)>>
            /\ call.profileNames = <<>>
            /\ call.policyDirection = "ingress"
            /\ policies[PolID("t1", "pA")].InboundRules = <<"R1">>)
              => result.rules = << << <<"R1">> >>, <<>> >>

\* Two tiers were passed: the first, without ingress names, is left out, the
\* second gives its one policy twice, and the profiles tier holds two lists.
C14_Witness ==
    /\ call.fn = "extractRules" /\ result.done /\ ~result.panic
    /\ Len(call.tiers2) = 2 /\ call.policyDirection = "ingress"
    /\ Len(result.rules) = 2
    /\ Len(result.rules[1]) = 2
    /\ Len(result.rules[2]) = 2

\* A policy upsert for p was processed: p is cached with a new rule list.
C15_Upserted(p) ==
    /\ p \in DOMAIN policies'
    /\ p \notin DOMAIN policies \/ policies'[p] # policies[p]

\* C15: after a policy upsert for p every cached endpoint that names p in a
\* tier is in dirtyWorkloads, whatever came before (a removal of p and its
\* re-creation included), and the programs a reconciliation compiles and
\* attaches for an endpoint are made from the cached rule lists.
C15_UpsertDirtiesUsers ==
    [][/\ \A p \in PolicyIDs :
             C15_Upserted(p) => PolicyUsers(p)' \subseteq dirtyWorkloads'
       /\ \A e \in effects' :
             (e.op \in {"compile", "attach"} /\ e.by \in DOMAIN wlEps') =>
                 e.rules = extractRules(wlEps'[e.by].Tiers, wlEps'[e.by].ProfileIds,
                               IF e.hook = "egress" THEN "ingress" ELSE "egress")]_vars

\* A policy remove for p, or a profile remove for q, was processed: the cache
\* or the index lost the key.
C16_PolicyRemoved(p) ==
    \/ p \in DOMAIN policies /\ p \notin DOMAIN policies'
    \/ p \in DOMAIN policiesToWorkloads /\ p \notin DOMAIN policiesToWorkloads'
C16_ProfileRemoved(q) ==
    \/ q \in DOMAIN profiles /\ q \notin DOMAIN profiles'
    \/ q \in DOMAIN profilesToWorkloads /\ q \notin DOMAIN profilesToWorkloads'

\* C16: a policy remove, and likewise a profile remove, leaves every endpoint
\* id of the key's reverse-index set in dirtyWorkloads, the key out of its
\* cache and out of the reverse index, and the endpoint cache as it was.
C16_RemoveDirtiesAndErases ==
    [][/\ \A p \in PolicyIDs :
             C16_PolicyRemoved(p) =>
                 /\ IdxGet(policiesToWorkloads, p) \subseteq dirtyWorkloads'
                 /\ p \notin DOMAIN policies'
                 /\ p \notin DOMAIN policiesToWorkloads'
                 /\ wlEps' = wlEps
       /\ \A q \in ProfileIDs :
             C16_ProfileRemoved(q) =>
                 /\ IdxGet(profilesToWorkloads, q) \subseteq dirtyWorkloads'
                 /\ q \notin DOMAIN profiles'
                 /\ q \notin DOMAIN profilesToWorkloads'
                 /\ wlEps' = wlEps]_vars

\* After a reconciliation a policy was removed while an endpoint named it:
\* the endpoint is cached and dirty, the policy and its index entry are gone.
C16_Witness ==
    /\ coord = "idle"
    /\ failedLast = {}
    /\ dirtyIfaces = {} /\ "eth0" \in DOMAIN ifaces
    /\ \E p \in PolicyIDs, w \in DOMAIN wlEps :
          /\ <<p, w>> \in erasedEdges
          /\ w \in dirtyWorkloads
          /\ p \in PolKeys(wlEps[w].Tiers)
          /\ p \notin DOMAIN policies
          /\ p \notin DOMAIN policiesToWorkloads

\* Two values of the three maps hold the same endpoints and the same index
\* sets, an absent index entry counting as the empty set.
SameCaches(c1, c2) ==
    /\ c1.wlEps = c2.wlEps
    /\ \A p \in PolicyIDs :
          IdxGet(c1.policiesToWorkloads, p) = IdxGet(c2.policiesToWorkloads, p)
    /\ \A q \in ProfileIDs :
          IdxGet(c1.profilesToWorkloads, q) = IdxGet(c2.profilesToWorkloads, q)

\* C17: after a step that applied a workload-endpoint update, applying the
\* same update once more leaves the endpoint cache, the policy reverse index
\* and the profile reverse index as they are.
C17_UpdateTwiceIsOnce ==
    [][\A w \in WlIds :
          (/\ w \in DOMAIN wlEps'
           /\ Caches' = EndpointUpdated(Caches, w, wlEps'[w]))
              => SameCaches(EndpointUpdated(Caches', w, wlEps'[w]), Caches')]_vars

\* C18: from the state that a workload-endpoint update U leaves, whatever
\* state U was applied in, a remove of that endpoint followed by U again
\* gives back the endpoint cache and both reverse indices of the state after U.
C18_RemoveThenUpdateRestores ==
    \A w \in WlIds, wl \in EpValues :
        LET afterU == EndpointUpdated(Caches, w, wl)
            restored == EndpointUpdated(EndpointRemoved(afterU, w), w, wl)
        IN SameCaches(restored, afterU)

\* An endpoint with a policy and a profile was just updated, and another
\* endpoint is indexed under the same policy.
C18_Witness ==
    \E w \in DOMAIN wlEps :
        /\ w \in dirtyWorkloads
        /\ wlEps[w].ProfileIds # <<>>
        /\ \E p \in PolKeys(wlEps[w].Tiers) :
              /\ w \in IdxGet(policiesToWorkloads, p)
              /\ IdxGet(policiesToWorkloads, p) # {w}
        /\ SameCaches(EndpointUpdated(EndpointRemoved(Caches, w), w, wlEps[w]),
                      Caches)

\* C19: no mutator of OnUpdate ends in a fatal error or crash, whatever the
\* message and the state: a remove of an endpoint that is not cached and a
\* remove of a policy or profile never seen included.
C19_MutatorsNeverPanic == ~panicked

\* The number of tc commands that are running: tc qdisc del/add of the
\* data-interface workers and of the endpoint workers, and tc filter add.
C20_TcRunning ==
    Cardinality({i \in DOMAIN hostW : hostW[i] = "qdiscRun"})
        + Cardinality({w \in DOMAIN wlW : wlW[w] = "qdiscRun"})
        + Cardinality({c \in DOMAIN caa : caa[c].pc = "tc"})

\* C20: during a reconciliation no two tc commands run at the same time,
\* neither the tc qdisc del/add of the qdisc step nor tc filter add.
C20_OneTcAtATime == C20_TcRunning <= 1

\* The goroutines that have not finished: workers and the calls they wait for.
C21_HostRunning ==
    {i \in DOMAIN hostW : hostW[i] # "done"} # {}
        \/ \E c \in DOMAIN caa : c.kind = "host" /\ caa[c].pc # "ret"
C21_WlRunning ==
    {w \in DOMAIN wlW : wlW[w] # "done"} # {}
        \/ \E c \in DOMAIN caa : c.kind = "wl" /\ caa[c].pc # "ret"

\* C21: CompleteDeferredWork is a barrier: no endpoint worker exists while a
\* data-interface worker is unfinished, and when the call returns no worker
\* and no ingress or egress goroutine is running and every worker that was
\* started has its result in the error map of its phase.
C21_Barrier ==
    /\ wlW # EmptyMap => ~C21_HostRunning
    /\ (\E c \in DOMAIN caa : c.kind = "wl") => ~C21_HostRunning
    /\ coord = "returned" =>
          /\ ~C21_HostRunning /\ ~C21_WlRunning
          /\ DOMAIN errsI = DOMAIN hostW
          /\ DOMAIN errsW = DOMAIN wlW
    /\ coord = "phaseB" => DOMAIN errsI = DOMAIN hostW

\* The call returned after a data-interface worker and an endpoint worker
\* with its two goroutines.
C21_Witness ==
    /\ coord = "returned"
    /\ hostW # EmptyMap /\ wlW # EmptyMap
    /\ \E c \in DOMAIN caa : c.kind = "wl" /\ c.dirn = "ingress"
    /\ \E c \in DOMAIN caa : c.kind = "wl" /\ c.dirn = "egress"

\* The external actions the step performed.
C22_NewActions ==
    {e \in effects' : e.op \in {"qdisc", "compile", "attach", "sweep", "acceptLocal"}}
        \ effects

\* C22: a qdisc, compile, attach, map-sweep or accept_local action is never
\* performed by a step of OnUpdate: every such action is a step between the
\* start and the return of a CompleteDeferredWork call.
C22_ActionsOnlyInReconcile ==
    [][/\ C22_NewActions # {} =>
             (coord \in {"phaseA", "phaseB"} /\ coord' \in {"phaseA", "phaseB"})
       /\ coord' = "idle" => C22_NewActions = {}]_vars

\* A message was processed after a reconciliation in which a worker failed,
\* and marked something else dirty: no action is on record.
C22_Witness ==
    /\ coord = "idle"
    /\ failedLast # {}
    /\ Dirty # failedLast
    /\ effects = {}

\* ---------------------------------------------------------------------------
\* C23
\* ---------------------------------------------------------------------------

\* A step of a worker goroutine: the coordinator stays inside the same phase.
C23_WorkerStep == coord \in {"phaseA", "phaseB"} /\ coord' = coord

\* The reads of the manager's maps the step records.
C23_NewReads == {e \in effects' : e.op = "read"} \ effects

\* C23 (as the code has it): no step of a reconcile worker writes the
\* endpoint, policy, profile or interface cache, the reverse indices or the
\* dirty sets, and what a worker hands back goes through the error maps only;
\* the workers do read the caches while the coordinator waits: applyPolicy
\* reads wlEps, extractRules reads policies and profiles and
\* compileAndAttachProgram reads ifaces, and never an index or a dirty set.
C23_WorkersOnlyReadCaches ==
    [][C23_WorkerStep =>
          /\ UNCHANGED <<cacheVars, dirtyWorkloads, dirtyIfaces, failedLast>>
          /\ \A e \in C23_NewReads : e.out \in {"wlEps", "policies", "profiles", "ifaces"}
          /\ (wlW' # wlW /\ \E w \in DOMAIN wlW : wlW[w] = "applyPolicy" /\ wlW'[w] # wlW[w])
                => \E e \in effects' : e.op = "read" /\ e.out = "wlEps"
          /\ (\E e \in effects' \ effects : e.op = "compile")
                => \E e \in effects' : e.op = "read" /\ e.out = "ifaces"]_vars

\* C23 (as stated): the workers neither read nor write the caches, the indices
\* and the dirty sets; they use only what they were handed at spawn.
C23_WorkersTouchNoCache ==
    [][C23_WorkerStep =>
          /\ UNCHANGED <<cacheVars, dirtyWorkloads, dirtyIfaces, failedLast>>
          /\ C23_NewReads = {}]_vars

\* The workers have run and returned: an endpoint worker read the endpoint
\* cache, the policy cache and the interface cache.
C23_Witness ==
    /\ coord = "returned"
    /\ \E w \in DOMAIN wlW \cap DOMAIN wlEps :
          /\ CacheRead(w, "wlEps") \in effects
          /\ CacheRead(w, "policies") \in effects
          /\ CacheRead(w, "ifaces") \in effects
    /\ policies # EmptyMap

\* ---------------------------------------------------------------------------
\* C24
\* ---------------------------------------------------------------------------

\* The sweeps of the call c in the history.
C24_Sweeps(c, hist) ==
    {e \in hist : e.op = "sweep" /\ e.by = c.key /\ e.hook = CallAP(c).Hook}

\* The attach and sweep actions a step adds to the history.
C24_NewTcActions == {e \in effects' \ effects : e.op \in {"attach", "sweep"}}

\* C24: every run of tc filter add, whatever its outcome, leaves its call
\* holding the tc lock with the sweep of the pinned maps still to run; until
\* that sweep has run the lock is not released and the only attach or sweep
\* action of any worker is that sweep; each call sweeps once, after its tc
\* run, and the lock is released only by a call whose sweep has re-pinned the
\* maps and removed the old pins.
C24_SweepBeforeUnlock ==
    [][/\ \A c \in DOMAIN caa :
             /\ (\E e \in C24_NewTcActions : e.op = "attach" /\ e.by = c.key
                                               /\ e.hook = CallAP(c).Hook)
                   => /\ caa'[c].pc = "sweep" /\ tcLock' = {c}
                      /\ C24_Sweeps(c, effects') = {}
             /\ caa[c].pc = "sweep"
                   => /\ tcLock = {c} /\ tcLock' = {c}
                      /\ caa[c].tcOut \in {"ok", "notfound", "fail"}
                      /\ C24_Sweeps(c, effects) = {}
                      /\ C24_NewTcActions \subseteq C24_Sweeps(c, effects')
                      /\ caa'[c].pc # "sweep" => Cardinality(C24_Sweeps(c, effects')) = 1
             /\ caa[c].pc # "sweep" => C24_Sweeps(c, effects') = C24_Sweeps(c, effects)
             /\ (c \in tcLock /\ c \notin tcLock')
                   => /\ caa[c].tcOut # "none"
                      /\ \E e \in C24_Sweeps(c, effects) : e.out = "ok"]_vars

\* A failed attach was swept and its lock released, the attach of a second
\* call met a missing interface and holds the lock with its sweep to come, and
\* a third call waits for the lock.
C24_Witness ==
    /\ \E c \in DOMAIN caa :
          /\ caa[c].tcOut = "fail" /\ caa[c].pc \in {"dump", "ret"}
          /\ \E e \in C24_Sweeps(c, effects) : e.out = "ok"
    /\ \E c \in DOMAIN caa : caa[c].tcOut = "notfound" /\ caa[c].pc = "sweep"
    /\ \E c \in DOMAIN caa : caa[c].pc = "lock"

\* ---------------------------------------------------------------------------
\* C25
\* ---------------------------------------------------------------------------

\* The step is one of the call c and of no other goroutine.
C25_StepOf(c) ==
    /\ Running(c)
    /\ UNCHANGED <<hostW, wlW, tcLock, coord>>
    /\ \A d \in DOMAIN caa \ {c} : caa'[d] = caa[d]

\* C25: when the cached version of a dirty endpoint names a policy or a
\* profile that is not cached, the extraction for its worker is not a fatal
\* error: the call goes on to compile, with a rule list that has as many
\* sub-lists as the endpoint has tiers with policies of the direction, plus
\* the one of the profiles.
C25_AbsentRefsGiveNullLists ==
    [][\A c \in DOMAIN caa :
          (c.kind = "wl" /\ caa[c].pc = "compile" /\ C25_StepOf(c) /\ CallPanics(c)) =>
              /\ ~panicked'
              /\ caa'[c].pc # "compile"
              /\ \E e \in effects' :
                    /\ e.op = "compile" /\ e.by = c.key /\ e.hook = CallAP(c).Hook
                    /\ Len(e.rules) =
                          Cardinality({k \in 1..Len(wlEps[c.key].Tiers) :
                              DirectionalPols(wlEps[c.key].Tiers[k], c.dirn) # <<>>}) + 1]_vars

\* ---------------------------------------------------------------------------
\* C26, C27
\* ---------------------------------------------------------------------------

\* The entries of the interfaces other than name are what they were.
C26_IfacesElsewhereSame(name) ==
    \A n \in IfaceNames \ {name} :
        /\ n \in DOMAIN ifaces' <=> n \in DOMAIN ifaces
        /\ n \in DOMAIN ifaces => ifaces'[n] = ifaces[n]

\* C26: an interface-state update with state Unknown erases the entry of the
\* interface, state and addresses; one with another state stores the state
\* and keeps the addresses of the entry; either way the name is in
\* dirtyIfaces afterwards and the entry of no other interface changes.
C26_StateUpdateFrame ==
    [][(inbox # <<>> /\ Head(inbox).type = "ifaceUpdate") =>
          LET name == Head(inbox).name
              state == Head(inbox).state
          IN /\ state = StateUnknown => name \notin DOMAIN ifaces'
             /\ state # StateUnknown =>
                   /\ name \in DOMAIN ifaces'
                   /\ ifaces'[name].State = state
                   /\ ifaces'[name].addrs = IfaceGet(name).addrs
             /\ name \in dirtyIfaces'
             /\ dirtyIfaces \subseteq dirtyIfaces'
             /\ C26_IfacesElsewhereSame(name)]_vars

\* Every message was processed: eth0 was erased by an update with state
\* Unknown and is dirty; cali1 got addresses and the state Down, and has both.
C26_Witness ==
    /\ inbox = <<>>
    /\ "eth0" \notin DOMAIN ifaces /\ "eth0" \in dirtyIfaces
    /\ "cali1" \in DOMAIN ifaces
    /\ ifaces["cali1"].State = StateDown
    /\ ifaces["cali1"].addrs # <<>>

\* The IPv4 addresses among the strings of an update, in their 4-byte form.
C27_IPv4(strs) == {To4(ParseIP(s)) : s \in strs} \ {NilIP}

\* C27: an interface-addresses update without an address set changes neither
\* the interface cache nor dirtyIfaces; one with a set makes the address list
\* of the interface the IPv4 addresses of the set, one entry for each string
\* that is one and nothing of the old list, keeps the state of the interface,
\* puts the name into dirtyIfaces and changes the entry of no other interface.
C27_AddrsUpdateFrame ==
    [][(inbox # <<>> /\ Head(inbox).type = "ifaceAddrsUpdate") =>
          LET name == Head(inbox).name
              addrSet == Head(inbox).addrs
          IN IF addrSet.isNil
             THEN UNCHANGED <<ifaces, dirtyIfaces>>
             ELSE /\ name \in DOMAIN ifaces'
                  /\ ifaces'[name].State = IfaceGet(name).State
                  /\ SeqToSet(ifaces'[name].addrs) = C27_IPv4(addrSet.strs)
                  /\ Len(ifaces'[name].addrs) =
                        Cardinality({s \in addrSet.strs : To4(ParseIP(s)) # NilIP})
                  /\ dirtyIfaces' = dirtyIfaces \cup {name}
                  /\ C26_IfacesElsewhereSame(name)]_vars

\* Every message was processed: eth0 is up and holds the two addresses of an
\* update, the second one first; cali1 has an entry that an update without
\* any IPv4 address made, with the state of the zero value and no address.
C27_Witness ==
    /\ inbox = <<>>
    /\ "eth0" \in DOMAIN ifaces
    /\ ifaces["eth0"] = [State |-> StateUp, addrs |-> <<"10.0.0.2", "10.0.0.1">>]
    /\ "cali1" \in DOMAIN ifaces
    /\ ifaces["cali1"] = [State |-> StateUnknown, addrs |-> <<>>]
    /\ dirtyIfaces = {"eth0", "cali1"}

\* ---------------------------------------------------------------------------
\* C28
\* ---------------------------------------------------------------------------

\* The step takes an element out of a dirty set.
C28_Removes ==
    \/ ~(dirtyIfaces \subseteq dirtyIfaces')
    \/ ~(dirtyWorkloads \subseteq dirtyWorkloads')

\* C28: no OnUpdate message, of any type, takes an element out of dirtyIfaces
\* or dirtyWorkloads; an element leaves a dirty set only in a step of the
\* coordinator of CompleteDeferredWork: the first Iter over the dirty
\* interfaces, or the Iter after the workers of a phase have returned.
C28_DirtyOnlyDrainedByReconcile ==
    [][/\ coord' = "idle" => ~C28_Removes
       /\ C28_Removes =>
             \/ coord = "idle" /\ coord' = "phaseA"
             \/ coord = "returned" /\ coord' = "phaseA"
             \/ coord = "phaseA" /\ coord' = "phaseB"
             \/ coord = "phaseB" /\ coord' = "returned"]_vars

\* Messages made an interface and an endpoint dirty, and the reconciliation
\* that has just returned had a worker for each and emptied both dirty sets.
C28_Witness ==
    /\ coord = "returned"
    /\ "eth0" \in DOMAIN hostW /\ "w1" \in DOMAIN wlW
    /\ dirtyIfaces = {} /\ dirtyWorkloads = {}
    /\ ifaces["eth0"].addrs # <<>>

\* ---------------------------------------------------------------------------
\* C29
\* ---------------------------------------------------------------------------

\* The qdisc, compile, attach and sweep actions done for the endpoint w.
C29_ActionsFor(w) ==
    {e \in effects : e.by = w /\ e.op \in {"qdisc", "compile", "attach", "sweep"}}

\* C29: applyPolicy for a dirty id whose endpoint is not cached does no
\* qdisc, compile or attach action and returns nil, and the reconciliation
\* takes the id out of dirtyWorkloads; for a cached endpoint it has returned
\* only after both the ingress and the egress call have returned, each after
\* a compile whatever became of the other, and it returns the error of the
\* ingress call if that is not nil, else the error of the egress call.
C29_ApplyPolicyResult ==
    \A w \in DOMAIN wlW :
        LET ci == CaaId("wl", w, PolDirnIngress)
            ce == CaaId("wl", w, PolDirnEgress)
        IN /\ w \notin DOMAIN wlEps =>
                 /\ C29_ActionsFor(w) = {}
                 /\ ci \notin DOMAIN caa /\ ce \notin DOMAIN caa
                 /\ wlW[w] \in {"applyPolicy", "done"}
                 /\ wlW[w] = "done" => errsW[w] = NilErr
                 /\ coord = "returned" => w \notin dirtyWorkloads
           /\ (w \in DOMAIN wlEps /\ wlW[w] = "done") =>
                 /\ ci \in DOMAIN caa /\ ce \in DOMAIN caa
                 /\ caa[ci].pc = "ret" /\ caa[ce].pc = "ret"
                 /\ \A c \in {ci, ce} :
                       \E e \in C29_ActionsFor(w) :
                           e.op = "compile" /\ e.hook = CallAP(c).Hook
                 /\ errsW[w] = IF caa[ci].err # NilErr THEN caa[ci].err
                               ELSE caa[ce].err
                 /\ coord = "returned" => (w \in dirtyWorkloads <=> errsW[w] # NilErr)

\* applyPolicy has returned the ingress error of a cached endpoint whose two
\* compiles both failed.
C29_Witness ==
    /\ coord = "returned"
    /\ \E w \in DOMAIN wlW \cap DOMAIN wlEps :
          /\ caa[CaaId("wl", w, PolDirnIngress)].err # NilErr
          /\ caa[CaaId("wl", w, PolDirnEgress)].err # NilErr
          /\ errsW[w] = caa[CaaId("wl", w, PolDirnIngress)].err
          /\ w \in dirtyWorkloads

\* A reconciliation has returned that found the id of a removed endpoint in
\* dirtyWorkloads: the id is dirty no more and nothing was done for it.
C29_WitnessAbsent ==
    /\ coord = "returned"
    /\ \E w \in DOMAIN wlW : w \notin DOMAIN wlEps /\ w \notin dirtyWorkloads

\* ---------------------------------------------------------------------------
\* C30
\* ---------------------------------------------------------------------------

\* The INGRESS bit of a flags value is set.
C30_IngressBit(flags) == (flags \div CompileFlagIngress) % 2 = 1

\* The to-or-from value calculateTCAttachPoint derives from the hook.
C30_ToOrFrom(ap) == IF ap.Hook = TCHookIngress THEN FromEp ELSE ToEp

\* C30 (as the code has it): the INGRESS bit of the attach point is set if
\* and only if the policy direction is ingress: for the kinds host and tunnel
\* that is when to-or-from is FromEp, for the kind workload when it is ToEp.
C30_IngressBitIffPolicyIngress ==
    (call.fn = "calculateTCAttachPoint" /\ result.done) =>
        /\ C30_IngressBit(result.ap.CompileFlags)
              <=> call.policyDirection = PolDirnIngress
        /\ call.endpointType \in {EpTypeHost, EpTypeTunnel} =>
              (C30_IngressBit(result.ap.CompileFlags)
                  <=> C30_ToOrFrom(result.ap) = FromEp)
        /\ call.endpointType = EpTypeWorkload =>
              (C30_IngressBit(result.ap.CompileFlags)
                  <=> C30_ToOrFrom(result.ap) = ToEp)

\* C30 (as stated): for every endpoint kind the INGRESS bit of the attach
\* point is set if and only if to-or-from is FromEp.
C30_IngressBitIffFromEp ==
    (call.fn = "calculateTCAttachPoint" /\ result.done) =>
        (C30_IngressBit(result.ap.CompileFlags)
            <=> C30_ToOrFrom(result.ap) = FromEp)

\* The call for a workload's egress policy returned the ingress hook and the
\* from-section, without the INGRESS bit.
C30_Witness ==
    /\ call.fn = "calculateTCAttachPoint" /\ result.done
    /\ call.endpointType = EpTypeWorkload /\ call.policyDirection = PolDirnEgress
    /\ result.ap.Hook = TCHookIngress
    /\ result.ap.Section = "calico_from_workload_ep"
    /\ ~C30_IngressBit(result.ap.CompileFlags)

\* ---------------------------------------------------------------------------
\* C31
\* ---------------------------------------------------------------------------

\* An external step of this reconciliation did not succeed: a compile, a tc
\* attach (a missing device included), a sweep or an accept_local write.
C31_SomeStepFailed ==
    \E e \in effects :
        /\ e.op \in {"compile", "attach", "sweep", "acceptLocal"}
        /\ e.out # "ok"

\* C31: with no further message, a CompleteDeferredWork call that has started
\* returns with dirtyIfaces and dirtyWorkloads empty, unless one of its
\* external steps fails.
C31_ReconcileTerminatesClean ==
    (coord = "phaseA") ~>
        \/ coord = "returned" /\ dirtyIfaces = {} /\ dirtyWorkloads = {}
        \/ C31_SomeStepFailed

\* ---------------------------------------------------------------------------
\* C32
\* ---------------------------------------------------------------------------

\* The interfaces on which an EnsureQdisc is running: tc qdisc del and tc
\* qdisc add are issued between its start and its end.
C32_QdiscRunning ==
    {i \in DOMAIN hostW : hostW[i] = "qdiscRun"}
        \cup {wlEps[w].Name : w \in {x \in DOMAIN wlW : wlW[x] = "qdiscRun"}}

\* C32: within one CompleteDeferredWork call no EnsureQdisc starts on an
\* interface that already has a program attached by this call, and no program
\* is attached to an interface while an EnsureQdisc is running on it.
C32_NoQdiscAfterAttach ==
    [][/\ \A e \in effects' \ effects :
             e.op = "qdisc" =>
                 ~\E a \in effects :
                     a.op = "attach" /\ a.out = "ok" /\ a.iface = e.iface
       /\ \A a \in effects' \ effects :
             (a.op = "attach" /\ a.out = "ok") => a.iface \notin C32_QdiscRunning]_vars

====
